---- MODULE Spec2Model ----
(***************************************************************************)
(* Model of the instrumented cache-aside entity services of the blog       *)
(* backend (crates/shared/src/service/*.rs) together with the cache store  *)
(* (cache/cache_helpers.rs), the repositories (repository/*.rs) and the    *)
(* start-up wiring (utils/di.rs).                                          *)
(*                                                                         *)
(* One action is one service operation, run from its first to its last     *)
(* statement.  The order of the calls it makes is kept in last.steps.      *)
(* A behaviour drives the services of one entity: the services of          *)
(* different entities share no table and no cache key.                     *)
(* Rows keep the columns the services read; strings are one-letter names.  *)
(* A value of type Option<T> is the sequence <<>> (None) or <<x>> (Some).  *)
(***************************************************************************)
EXTENDS Integers, Sequences, FiniteSets, TLC

\* ------------------------------------------------------------ bounds ----
MaxId == 2
MaxSpans == 3

Names == {"a", "b"}
Emails == {"a", "b"}
FirstNames == {"a"}
NewPasswords == {"p"}
Passwords == {"p", "q"}
Searches == {"", "a"}
\* i32::MAX, the largest page a request can carry
MaxI32 == 2147483647
Pages == {0, 1, 2, MaxI32}
PageSizes == {0, 1}
Ids == 1..MaxId

VARIABLES phase, db, nextId, cache, cacheUp, spansOpened, spansCompleted, spansAbandoned,
          last, listReq, calc, gw, race, req, signup, locks

vars == <<phase, db, nextId, cache, cacheUp, spansOpened, spansCompleted, spansAbandoned,
          last, listReq, calc, gw, race, req, signup, locks>>

Tables == {"category", "post", "comment", "user"}

\* ------------------------------------------------- small list helpers ----
Count(seq, S) == Cardinality({i \in DOMAIN seq : seq[i] \in S})

RECURSIVE SortedIds(_)
SortedIds(S) ==
    IF S = {} THEN <<>>
    ELSE LET m == CHOOSE x \in S : \A y \in S : x <= y
         IN <<m>> \o SortedIds(S \ {m})

SeqMap(f(_), seq) == [i \in DOMAIN seq |-> f(seq[i])]

\* ------------------------------------------------------------- JSON ----
\* The fields serde requires when it deserializes a value of each type.
FieldsOf(ty) ==
    CASE ty = "CategoryResponse" -> {"id", "name"}
      [] ty = "PostResponse" -> {"id", "title"}
      [] ty = "PostRelationResponse" -> {"post_id", "title", "comment_id", "comment"}
      [] ty = "CommentResponse" -> {"id", "id_post_comment", "comment"}
      [] ty = "UserResponse" -> {"id", "firstname", "email"}
      [] ty = "ApiResponse" -> {"status", "message", "data"}
      [] ty = "ApiResponsePagination" -> {"status", "message", "data", "pagination"}

\* serde_json::to_string: a struct becomes an object with its fields, and
\* Some(x) is written as x itself.
JsonNull == [null |-> TRUE]

to_string(isOption, value) ==
    IF isOption
    THEN IF value = <<>> THEN JsonNull ELSE value[1]
    ELSE value

HasFields(obj, ty) == FieldsOf(ty) \subseteq DOMAIN obj

\* Variant: the id is not read back from the stored text.
Project_ZeroId(obj, ty) == [f \in FieldsOf(ty) |-> IF f = "id" THEN 0 ELSE obj[f]]

Project(obj, ty) == [f \in FieldsOf(ty) |-> obj[f]]

\* serde_json::from_str::<env<data>>: every field of the target type must be
\* present, unknown fields are dropped; Vec<data> is checked element-wise.
from_str(env, isVec, dataTy, json) ==
    IF env = "Vec"
    THEN IF \A i \in DOMAIN json : HasFields(json[i], dataTy)
         THEN <<[i \in DOMAIN json |-> Project(json[i], dataTy)]>>
         ELSE <<>>
    ELSE IF ~HasFields(json, env) THEN <<>>
    ELSE IF isVec
         THEN IF \A i \in DOMAIN json.data : HasFields(json.data[i], dataTy)
              THEN <<[Project(json, env) EXCEPT
                        !.data = [i \in DOMAIN json.data |-> Project(json.data[i], dataTy)]]>>
              ELSE <<>>
         ELSE IF HasFields(json.data, dataTy)
              THEN <<[Project(json, env) EXCEPT !.data = Project(json.data, dataTy)]>>
              ELSE <<>>

\* ------------------------------------------------------- cache store ----
get_from_cache(env, isVec, dataTy, key) ==
    IF ~cacheUp THEN <<>>
    ELSE IF key \notin DOMAIN cache THEN <<>>
    ELSE from_str(env, isVec, dataTy, cache[key])

set_to_cache(c, key, isOption, data) ==
    IF ~cacheUp THEN c
    ELSE [k \in DOMAIN c \cup {key} |-> IF k = key THEN to_string(isOption, data) ELSE c[k]]

delete_from_cache(c, key) ==
    IF ~cacheUp THEN c
    ELSE [k \in DOMAIN c \ {key} |-> c[k]]

EmptyCache == [k \in {} |-> k]

\* ------------------------------------------------------- calculator ----
\* Inputs and results of the page arithmetic when it is exercised on its own.
NoCalc == [page |-> 0, page_size |-> 0, total_items |-> 0,
           norm |-> EmptyCache, total_pages |-> EmptyCache]

\* ---------------------------------------------------------- gateway ----
\* The requests the gateway serves at the same time.
MaxTasks == 2
Tasks == 1..MaxTasks

\* The services of the gateway's DependenciesInject that have handlers.
GatewayServices == {"auth", "user", "category", "comment"}

NoHandler == [svc |-> "", op |-> ""]

\* Where each request stands, which handler serves it, whether its body
\* satisfies the validation rules, the calls made for it, the status the RPC
\* was answered with, the HTTP status sent, and which request holds each
\* service's Mutex<..Client> (0: nobody).
NoGateway == [pc |-> [t \in Tasks |-> "idle"],
              handler |-> [t \in Tasks |-> NoHandler],
              valid |-> [t \in Tasks |-> TRUE],
              steps |-> [t \in Tasks |-> <<>>],
              code |-> [t \in Tasks |-> ""],
              http |-> [t \in Tasks |-> 0],
              client |-> [svc \in GatewayServices |-> 0]]

\* ------------------------------------------------------ interleaving ----
\* Calls of PostService on one post that run at the same time, with a clock.
\* Time is counted in minutes up to MaxTime.
MaxTime == 7
MaxCallers == 2
Callers == 1..MaxCallers

\* Duration::from_secs(60 * 5), in minutes
Ttl == 5

Resting == [pc |-> "idle", seen |-> <<>>]

\* The clock, the row of the post (none: <<>>), the minute of the latest
\* write to it, the entry under post:id=1 with the minute it expires,
\* where each call stands, and whether a crash has cut a call short.
NoRace == [now |-> 0, row |-> <<>>, wrote |-> 0, entry |-> <<>>,
           call |-> [c \in Callers |-> Resting], crashed |-> FALSE]

\* ------------------------------------------------------- one request ----
\* One HTTP request on its way through the gateway: where it stands, the
\* handler of its route, the token it carries (none, one verify_token rejects,
\* one it accepts), whether its body satisfies the validation rules and
\* whether the extractor lets it through, the calls made for it, the status
\* and message the RPC was answered with, the text of the failure underneath,
\* and the HTTP status and error body sent.
NoBody == [status |-> "", message |-> "", error |-> ""]

NoReq == [pc |-> "idle", handler |-> NoHandler, token |-> "none", valid |-> TRUE,
          accepted |-> TRUE, steps |-> <<>>, code |-> "", message |-> "", text |-> "",
          http |-> 0, body |-> NoBody]

\* ---------------------------------------------------------- sign-ups ----
\* create_user / register_user calls that run at the same time: the emails
\* that have a row, and for each call where it stands, which method it is,
\* the email it carries, whether it has invoked repository.create_user, what
\* it returned and, for a refused insert, why.
Unsigned == [pc |-> "idle", op |-> "", email |-> "", sent |-> FALSE, res |-> "", cause |-> ""]

NoSignup == [taken |-> {}, call |-> [c \in Callers |-> Unsigned]]

\* -------------------------------------------------- gateway mutexes ----
\* The two kinds of tokio Mutex of the gateway's AppState: for each request
\* where it stands and which service serves it, which request holds each
\* service's Mutex<..Client> and which holds Mutex<Metrics> (0: nobody).
NoLocks == [pc |-> [t \in Tasks |-> "idle"], svc |-> [t \in Tasks |-> ""],
            client |-> [svc \in GatewayServices |-> 0], metrics |-> 0]

\* ------------------------------------------------------ error kinds ----
\* ErrorResponse::from(AppError)
ErrorResponseFrom(kind, msg) ==
    CASE kind = "NotFound" -> [status |-> "NOT_FOUND", message |-> msg]
      [] kind = "ValidationError" -> [status |-> "VALIDATION_ERROR", message |-> msg]
      [] kind = "EmailAlreadyExists" -> [status |-> "CONFLICT", message |-> "Email already exists"]
      [] kind = "InvalidCredentials" -> [status |-> "INVALID_CREDENTIALS", message |-> "Invalid credentials"]
      [] OTHER -> [status |-> "INTERNAL", message |-> "Internal server error"]

\* ------------------------------------------------------ result forms ----
Ok(env) == [tag |-> "Ok", env |-> env, kind |-> "", err |-> [status |-> "", message |-> ""]]
\* The method did not return: its task panicked.
Panicked == [tag |-> "Panic", env |-> [status |-> "", message |-> ""], kind |-> "",
             err |-> [status |-> "", message |-> ""]]
OkNone == [tag |-> "None", env |-> [status |-> "", message |-> ""], kind |-> "",
           err |-> [status |-> "", message |-> ""]]
\* Err(ErrorResponse::from(err)); kind is the AppError variant it was made from
Err(kind, msg) == [tag |-> "Err", env |-> [status |-> "", message |-> ""], kind |-> kind,
                   err |-> ErrorResponseFrom(kind, msg)]

ApiResponse(message, data) == [status |-> "success", message |-> message, data |-> data]

Pagination(page, page_size, total_items, total_pages) ==
    [page |-> page, page_size |-> page_size, total_items |-> total_items, total_pages |-> total_pages]

ApiResponsePagination(message, data, pagination) ==
    [status |-> "success", message |-> message, data |-> data, pagination |-> pagination]

\* ---------------------------------------------------------- tracing ----
start_tracing == <<"start">>
complete_tracing_success(steps) == Append(steps, "complete_success")
\* Variant: the error path returns without completing the span.
complete_tracing_error_Skipped(steps) == steps

complete_tracing_error(steps) == Append(steps, "complete_error")

Completions == {"complete_success", "complete_error"}

\* The page parameters of the latest list request and those handed to the
\* repository (none when the repository was not called).
NoList == [req |-> <<>>, repo |-> <<>>]
ListCall(reqPage, reqSize, repo) == [req |-> <<reqPage, reqSize>>, repo |-> repo]

\* ------------------------------------------------------ rpc boundary ----
\* What the gRPC handler wrapped around a service method sends back: a reply
\* (code OK, its body left out) or a tonic Status with its message.  A handler
\* whose task panicked sends nothing.
NoReply == [code |-> "", message |-> "", body |-> <<>>]

\* Ok(None) => Err(Status::not_found("<Entity> not found"))
AbsentMessage(svc) ==
    CASE svc = "category" -> "Category not found"
      [] svc = "post" -> "Post not found"
      [] svc = "comment" -> "Comment not found"
      [] OTHER -> "User not found"

\* Err(err) => Err(Status::internal(err.message)) in every handler but
\* login_user, which has Err(err) => Err(Status::unauthenticated(err.message))
ErrStatus(op, message) ==
    [code |-> IF op = "login" THEN "UNAUTHENTICATED" ELSE "INTERNAL", message |-> message,
     body |-> <<>>]

\* The response type each method's data is made of.
DataType(op, svc) ==
    CASE op = "get_relation" -> "PostRelationResponse"
      [] svc = "category" -> "CategoryResponse"
      [] svc = "post" -> "PostResponse"
      [] svc = "comment" -> "CommentResponse"
      [] OTHER -> "UserResponse"

\* From<XResponse> for ProtoXResponse and From<ProtoXResponse> for XResponse:
\* the fields are copied one by one.
CopyFields(ty, data) == [f \in FieldsOf(ty) |-> data[f]]

\* Variant: the name-like fields are not carried over.
FromProto_Blank(ty, opt) ==
    [f \in FieldsOf(ty) |->
        IF f \in {"id", "post_id", "comment_id", "id_post_comment"}
        THEN (IF opt = <<>> THEN 0 ELSE opt[1][f]) ELSE ""]

\* From<Option<ProtoXResponse>> for XResponse: None becomes the zero value.
FromProto(ty, opt) ==
    IF opt = <<>>
    THEN [f \in FieldsOf(ty) |->
             IF f \in {"id", "post_id", "comment_id", "id_post_comment"} THEN 0 ELSE ""]
    ELSE CopyFields(ty, opt[1])

\* Pagination <-> its protobuf message
ConvertPagination(pagination) ==
    [f \in {"page", "page_size", "total_items", "total_pages"} |-> pagination[f]]

\* The data of the reply message: a repeated field for lists, an optional
\* message for one record, the token itself for login, nothing for delete.
ReplyData(op, svc, data) ==
    CASE op = "get_all" -> [i \in DOMAIN data |-> CopyFields(DataType(op, svc), data[i])]
      [] op = "delete" -> <<>>
      [] op = "login" -> data
      [] OTHER -> <<CopyFields(DataType(op, svc), data)>>

\* message: "<Entity> fetched successfully" in the get_by_id handlers
FetchedMessage(svc) ==
    CASE svc = "category" -> "Category fetched successfully"
      [] svc = "post" -> "Post fetched successfully"
      [] svc = "comment" -> "Comment fetched successfully"
      [] OTHER -> "User fetched successfully"

\* The reply message a handler builds from the service's envelope: the
\* get_by_id handlers set status and message themselves, the others pass
\* them on.
ReplyBody(op, svc, env) ==
    [status |-> IF op = "get_by_id" THEN "success" ELSE env.status,
     message |-> IF op = "get_by_id" THEN FetchedMessage(svc) ELSE env.message,
     data |-> ReplyData(op, svc, env.data),
     pagination |-> IF op = "get_all" /\ svc # "comment"
                    THEN <<ConvertPagination(env.pagination)>> ELSE <<>>]

\* The match on the service's result in each handler of the gRPC server;
\* find_all_users replaces the error's message with a fixed one.
RpcReply(op, svc, res) ==
    CASE res.tag = "Ok" -> [code |-> "OK", message |-> "", body |-> <<ReplyBody(op, svc, res.env)>>]
      [] res.tag = "None" -> [code |-> "NOT_FOUND", message |-> AbsentMessage(svc), body |-> <<>>]
      [] res.tag = "Err" ->
           ErrStatus(op, IF op = "get_all" /\ svc = "user" THEN "Failed to fetch users"
                         ELSE res.err.message)
      [] OTHER -> NoReply

\* The envelope the gateway service makes of a reply: status and message are
\* passed on, the data converted back, an absent pagination defaulted.
GatewayEnvelope(op, svc, body) ==
    LET data == CASE op = "get_all" ->
                       [i \in DOMAIN body.data |-> CopyFields(DataType(op, svc), body.data[i])]
                  [] op = "delete" -> <<>>
                  [] op = "login" -> body.data
                  [] OTHER -> FromProto(DataType(op, svc), body.data)
    IN IF op = "get_all" /\ svc # "comment"
       THEN [status |-> body.status, message |-> body.message, data |-> data,
             pagination |-> IF body.pagination = <<>>
                            THEN [page |-> 0, page_size |-> 0, total_items |-> 0,
                                  total_pages |-> 0]
                            ELSE ConvertPagination(body.pagination[1])]
       ELSE [status |-> body.status, message |-> body.message, data |-> data]

\* What the gateway service returns for a reply or a Status.
GatewayResult(op, svc, reply) ==
    IF reply.code = "OK"
    THEN [tag |-> "Ok", env |-> <<GatewayEnvelope(op, svc, reply.body[1])>>]
    ELSE [tag |-> "Err", env |-> <<>>]

\* The effect of one finished operation on the state.
\* password: the password a login request carries ("" for the other operations).
FinishGiven(password, call, op, svc, id, email, key, res, steps, newDb, newNext, newCache) ==
    /\ listReq' = call
    /\ db' = newDb
    /\ nextId' = newNext
    /\ cache' = newCache
    /\ spansOpened' = spansOpened + Count(steps, {"start"})
    /\ spansCompleted' = spansCompleted + Count(steps, Completions)
    /\ spansAbandoned' = spansAbandoned + Count(steps, {"panic"})
    /\ last' = [op |-> op, svc |-> svc, id |-> id, email |-> email, password |-> password,
                key |-> key,
                res |-> res, rpc |-> RpcReply(op, svc, res),
                out |-> GatewayResult(op, svc, RpcReply(op, svc, res)), steps |-> steps,
                cacheOk |-> cacheUp]
    /\ UNCHANGED <<phase, cacheUp, calc, gw, race, req, signup, locks>>

FinishCall(call, op, svc, id, email, key, res, steps, newDb, newNext, newCache) ==
    FinishGiven("", call, op, svc, id, email, key, res, steps, newDb, newNext, newCache)

Finish(op, svc, id, email, key, res, steps, newDb, newNext, newCache) ==
    FinishCall(NoList, op, svc, id, email, key, res, steps, newDb, newNext, newCache)

\* The entity whose tables and cache keys a service works on.
EntityOf(svc) == IF svc = "auth" THEN "user" ELSE svc

Running(svc) ==
    /\ phase = "running"
    /\ spansOpened < MaxSpans
    /\ last.svc = "" \/ EntityOf(last.svc) = EntityOf(svc)

\* ------------------------------------------------------- page params ----
\* get_categories: if req.page > 0 { req.page } else { 1 }
NormPageCategory(page) == IF page > 0 THEN page ELSE 1
NormSizeCategory(page_size) == IF page_size > 0 THEN page_size ELSE 10

\* Variant: the quotient is truncated instead of rounded up.
TotalPages_Truncated(total_items, page_size) == total_items \div page_size

\* (total_items as f64 / page_size as f64).ceil() as i32: the quotient, rounded
\* up when the division leaves a remainder
TotalPages(total_items, page_size) ==
    LET quotient == total_items \div page_size
    IN IF total_items % page_size = 0 THEN quotient ELSE quotient + 1

\* i32 addition and multiplication as a release build computes them (wrapping)
WrapAdd(x, y) ==
    IF y > 0 /\ x > MaxI32 - y THEN (x - MaxI32 - 1) + (y - MaxI32 - 1)
    ELSE IF y < 0 /\ x < (0 - MaxI32 - 1) - y THEN (x + MaxI32 + 1) + (y + MaxI32 + 1)
    ELSE x + y

RECURSIVE WrapMul(_, _)
WrapMul(a, b) == IF b = 0 THEN 0 ELSE WrapAdd(WrapMul(a, b - 1), a)

\* let offset = (page - 1) * page_size, for page >= 1 and page_size >= 1
OffsetOverflows(page, page_size) == page - 1 > MaxI32 \div page_size

\* LIMIT page_size OFFSET offset over the rows in the order of the query
PageAt(rows, offset, page_size) ==
    LET hi == IF page_size < Len(rows) - offset THEN offset + page_size ELSE Len(rows)
    IN IF offset >= Len(rows) THEN <<>> ELSE SubSeq(rows, offset + 1, hi)

PageOf(rows, page, page_size) == PageAt(rows, WrapMul(page - 1, page_size), page_size)

\* What becomes of a list query whose offset does not fit an i32: a build with
\* overflow checks panics at the multiplication; a build without wraps, and a
\* negative offset is refused when the query is bound and run.
OverflowOutcomes(page, page_size) ==
    {"panic"} \cup (IF WrapMul(page - 1, page_size) < 0 THEN {"refused"} ELSE {"wrapped"})

\* ------------------------------------------- category repository ----
CategoryResponseFrom(row) == [id |-> row.id, name |-> row.name]

\* WHERE name LIKE 'term%' (names and terms are one letter long)
Like(text, term) == text = term

CategoryFindAll(page, page_size, search) ==
    LET t == db["category"]
        ids == {i \in DOMAIN t : search = <<>> \/ Like(t[i].name, search[1])}
        rows == SeqMap(LAMBDA i : t[i], SortedIds(ids))
    IN [rows |-> PageOf(rows, NormPageCategory(page), NormSizeCategory(page_size)),
        total |-> Cardinality(ids)]

\* ---------------------------------------------- category service ----
GetCategories ==
    /\ Running("category")
    /\ \E reqPage \in Pages, reqSize \in PageSizes, reqSearch \in Searches, fail \in BOOLEAN :
        LET page == NormPageCategory(reqPage)
            page_size == NormSizeCategory(reqSize)
            search == IF reqSearch = "" THEN <<>> ELSE <<reqSearch>>
            cache_key == "categories:page=" \o ToString(page) \o ":size=" \o ToString(page_size)
                            \o ":search=" \o reqSearch
            cached == get_from_cache("ApiResponsePagination", TRUE, "CategoryResponse", cache_key)
            s1 == start_tracing \o <<"cache_get">>
            found == CategoryFindAll(page, page_size, search)
            response == ApiResponsePagination("Categories retrieved successfully",
                            SeqMap(CategoryResponseFrom, found.rows),
                            Pagination(page, page_size, found.total,
                                       TotalPages(found.total, page_size)))
            answered ==
                FinishCall(ListCall(reqPage, reqSize, <<page, page_size>>),
                           "get_all", "category", 0, "", cache_key, Ok(response),
                           complete_tracing_success(s1 \o <<"repo.find_all", "cache_set">>),
                           db, nextId, set_to_cache(cache, cache_key, FALSE, response))
        IN IF cached # <<>>
           THEN FinishCall(ListCall(reqPage, reqSize, <<>>),
                       "get_all", "category", 0, "", cache_key, Ok(cached[1]),
                       complete_tracing_success(s1), db, nextId, cache)
           ELSE IF fail
           THEN FinishCall(ListCall(reqPage, reqSize, <<page, page_size>>),
                       "get_all", "category", 0, "", cache_key, Err("SqlxError", ""),
                       complete_tracing_error(s1 \o <<"repo.find_all", "repo_err">>), db, nextId, cache)
           ELSE IF OffsetOverflows(page, page_size)
           THEN \E outcome \in OverflowOutcomes(page, page_size) :
                  CASE outcome = "panic" ->
                         FinishCall(ListCall(reqPage, reqSize, <<page, page_size>>),
                                    "get_all", "category", 0, "", cache_key, Panicked,
                                    s1 \o <<"repo.find_all", "offset_overflow", "panic">>,
                                    db, nextId, cache)
                    [] outcome = "refused" ->
                         FinishCall(ListCall(reqPage, reqSize, <<page, page_size>>),
                                    "get_all", "category", 0, "", cache_key, Err("SqlxError", ""),
                                    complete_tracing_error(s1 \o <<"repo.find_all", "offset_overflow",
                                                       "repo_err">>),
                                    db, nextId, cache)
                    [] OTHER -> answered
           ELSE answered

\* Variant: the Ok(None) arm stores the absent result under the key.
GetCategory_CachesAbsent ==
    /\ Running("category")
    /\ \E id \in Ids, fail \in BOOLEAN :
        LET cache_key == "category:id=" \o ToString(id)
            cached == get_from_cache("ApiResponse", FALSE, "CategoryResponse", cache_key)
            s1 == start_tracing \o <<"cache_get">>
        IN IF cached # <<>>
           THEN Finish("get_by_id", "category", id, "", cache_key, Ok(cached[1]),
                       complete_tracing_success(s1), db, nextId, cache)
           ELSE IF fail
           THEN Finish("get_by_id", "category", id, "", cache_key, Err("SqlxError", ""),
                       complete_tracing_error(s1 \o <<"repo.find_by_id", "repo_err">>), db, nextId, cache)
           ELSE IF id \in DOMAIN db["category"]
           THEN LET response == ApiResponse("Category retrieved successfully",
                                            CategoryResponseFrom(db["category"][id]))
                IN Finish("get_by_id", "category", id, "", cache_key, Ok(response),
                          complete_tracing_success(s1 \o <<"repo.find_by_id", "cache_set">>),
                          db, nextId, set_to_cache(cache, cache_key, FALSE, response))
           ELSE Finish("get_by_id", "category", id, "", cache_key, OkNone,
                       complete_tracing_error(s1 \o <<"repo.find_by_id", "repo_none", "cache_set">>),
                       db, nextId, set_to_cache(cache, cache_key, TRUE, <<>>))

GetCategory ==
    /\ Running("category")
    /\ \E id \in Ids, fail \in BOOLEAN :
        LET cache_key == "category:id=" \o ToString(id)
            cached == get_from_cache("ApiResponse", FALSE, "CategoryResponse", cache_key)
            s1 == start_tracing \o <<"cache_get">>
        IN IF cached # <<>>
           THEN Finish("get_by_id", "category", id, "", cache_key, Ok(cached[1]),
                       complete_tracing_success(s1), db, nextId, cache)
           ELSE IF fail
           THEN Finish("get_by_id", "category", id, "", cache_key, Err("SqlxError", ""),
                       complete_tracing_error(s1 \o <<"repo.find_by_id", "repo_err">>), db, nextId, cache)
           ELSE IF id \in DOMAIN db["category"]
           THEN LET response == ApiResponse("Category retrieved successfully",
                                            CategoryResponseFrom(db["category"][id]))
                IN Finish("get_by_id", "category", id, "", cache_key, Ok(response),
                          complete_tracing_success(s1 \o <<"repo.find_by_id", "cache_set">>),
                          db, nextId, set_to_cache(cache, cache_key, FALSE, response))
           ELSE Finish("get_by_id", "category", id, "", cache_key, OkNone,
                       complete_tracing_error(s1 \o <<"repo.find_by_id", "repo_none">>), db, nextId, cache)

\* rows of a table after an insert / update / delete
WithRow(t, row) == [i \in DOMAIN t \cup {row.id} |-> IF i = row.id THEN row ELSE t[i]]
WithoutRow(t, id) == [i \in DOMAIN t \ {id} |-> t[i]]

SetTable(name, t) == [db EXCEPT ![name] = t]
Bump(name) == [nextId EXCEPT ![name] = @ + 1]

\* Variant: a failed insert is tried a second time.
CreateCategory_Retries ==
    /\ Running("category")
    /\ \E name \in Names, fail \in BOOLEAN :
        LET s1 == IF fail THEN start_tracing \o <<"repo.create", "repo_err">> ELSE start_tracing
        IN /\ nextId["category"] <= MaxId
           /\ LET category == [id |-> nextId["category"], name |-> name]
                  response == ApiResponse("Category created successfully",
                                          CategoryResponseFrom(category))
              IN Finish("create", "category", category.id, "", "", Ok(response),
                        complete_tracing_success(s1 \o <<"repo.create">>),
                        SetTable("category", WithRow(db["category"], category)),
                        Bump("category"), cache)

CreateCategory ==
    /\ Running("category")
    /\ \E name \in Names, fail \in BOOLEAN :
        LET s1 == start_tracing
        IN IF fail
           THEN Finish("create", "category", 0, "", "", Err("SqlxError", ""),
                       complete_tracing_error(s1 \o <<"repo.create", "repo_err">>), db, nextId, cache)
           ELSE /\ nextId["category"] <= MaxId
                /\ LET category == [id |-> nextId["category"], name |-> name]
                       response == ApiResponse("Category created successfully",
                                               CategoryResponseFrom(category))
                   IN Finish("create", "category", category.id, "", "", Ok(response),
                             complete_tracing_success(s1 \o <<"repo.create">>),
                             SetTable("category", WithRow(db["category"], category)),
                             Bump("category"), cache)

UpdateCategory ==
    /\ Running("category")
    /\ \E id \in Ids, name \in Names, fail \in BOOLEAN :
        LET s1 == start_tracing
            cache_key == "category:id=" \o ToString(id)
        IN IF fail
           THEN Finish("update", "category", id, "", cache_key, Err("SqlxError", ""),
                       complete_tracing_error(s1 \o <<"repo.update", "repo_err">>), db, nextId, cache)
           ELSE IF id \notin DOMAIN db["category"]
           THEN Finish("update", "category", id, "", cache_key,
                       Err("NotFound", "Category with ID " \o ToString(id) \o " not found"),
                       complete_tracing_error(s1 \o <<"repo.update", "repo_err">>), db, nextId, cache)
           ELSE LET category == [id |-> id, name |-> name]
                    response == <<ApiResponse("Category updated successfully",
                                              CategoryResponseFrom(category))>>
                IN Finish("update", "category", id, "", cache_key, Ok(response[1]),
                          complete_tracing_success(s1 \o <<"repo.update", "cache_set">>),
                          SetTable("category", WithRow(db["category"], category)), nextId,
                          set_to_cache(cache, cache_key, TRUE, response))

DeleteCategory ==
    /\ Running("category")
    /\ \E id \in Ids, fail \in BOOLEAN :
        LET s1 == start_tracing
            cache_key == "category:id=" \o ToString(id)
        IN IF fail
           THEN Finish("delete", "category", id, "", cache_key, Err("SqlxError", ""),
                       complete_tracing_error(s1 \o <<"repo.delete", "repo_err">>), db, nextId, cache)
           ELSE IF id \notin DOMAIN db["category"]
           THEN Finish("delete", "category", id, "", cache_key,
                       Err("NotFound", "Category with ID " \o ToString(id) \o " not found"),
                       complete_tracing_error(s1 \o <<"repo.delete", "repo_err">>), db, nextId, cache)
           ELSE Finish("delete", "category", id, "", cache_key,
                       Ok(ApiResponse("Category deleted successfully", <<>>)),
                       complete_tracing_success(s1 \o <<"repo.delete", "cache_del">>),
                       SetTable("category", WithoutRow(db["category"], id)), nextId,
                       delete_from_cache(cache, cache_key))

\* ------------------------------------------------ post repository ----
PostResponseFrom(row) == [id |-> row.id, title |-> row.title]

\* posts.rs and user.rs: req.page.max(1), req.page_size.max(1)
Max1(n) == IF n > 1 THEN n ELSE 1

\* The orders in which a query without ORDER BY may return the rows.
RECURSIVE Orderings(_)
Orderings(S) ==
    IF S = {} THEN {<<>>}
    ELSE UNION {{<<x>> \o rest : rest \in Orderings(S \ {x})} : x \in S}

\* posts JOIN comments ON posts.id = comments.id_post_comment WHERE posts.id = post_id
PostRelationRows(post_id) ==
    IF post_id \notin DOMAIN db["post"] THEN {}
    ELSE {[post_id |-> post_id, title |-> db["post"][post_id].title,
           comment_id |-> c, comment |-> db["comment"][c].comment] :
            c \in {c \in DOMAIN db["comment"] : db["comment"][c].id_post_comment = post_id}}

\* -------------------------------------------------- post service ----
GetAllPosts ==
    /\ Running("post")
    /\ \E reqPage \in Pages, reqSize \in PageSizes, reqSearch \in Searches, fail \in BOOLEAN :
        LET page == Max1(reqPage)
            page_size == Max1(reqSize)
            search == IF reqSearch = "" THEN <<>> ELSE <<reqSearch>>
            cache_key == "posts:page=" \o ToString(page) \o ":size=" \o ToString(page_size)
                            \o ":search=" \o reqSearch
            cached == get_from_cache("ApiResponsePagination", TRUE, "PostResponse", cache_key)
            s1 == start_tracing \o <<"cache_get">>
            t == db["post"]
            ids == {i \in DOMAIN t : search = <<>> \/ Like(t[i].title, search[1])}
            answered ==
                \E order \in Orderings(ids) :
                    LET posts == PageOf(SeqMap(LAMBDA i : t[i], order), page, page_size)
                        total_items == Cardinality(ids)
                        response == ApiResponsePagination("Posts retrieved successfully",
                                        SeqMap(PostResponseFrom, posts),
                                        Pagination(page, page_size, total_items,
                                                   TotalPages(total_items, page_size)))
                    IN FinishCall(ListCall(reqPage, reqSize, <<page, page_size>>),
                                  "get_all", "post", 0, "", cache_key, Ok(response),
                                  complete_tracing_success(s1 \o <<"repo.get_all_posts", "cache_set">>),
                                  db, nextId, set_to_cache(cache, cache_key, FALSE, response))
        IN IF cached # <<>>
           THEN FinishCall(ListCall(reqPage, reqSize, <<>>),
                       "get_all", "post", 0, "", cache_key, Ok(cached[1]),
                       complete_tracing_success(s1), db, nextId, cache)
           ELSE IF fail
           THEN FinishCall(ListCall(reqPage, reqSize, <<page, page_size>>),
                       "get_all", "post", 0, "", cache_key, Err("SqlxError", ""),
                       complete_tracing_error(s1 \o <<"repo.get_all_posts", "repo_err">>),
                       db, nextId, cache)
           ELSE IF OffsetOverflows(page, page_size)
           THEN \E outcome \in OverflowOutcomes(page, page_size) :
                  CASE outcome = "panic" ->
                         FinishCall(ListCall(reqPage, reqSize, <<page, page_size>>),
                                    "get_all", "post", 0, "", cache_key, Panicked,
                                    s1 \o <<"repo.get_all_posts", "offset_overflow", "panic">>,
                                    db, nextId, cache)
                    [] outcome = "refused" ->
                         FinishCall(ListCall(reqPage, reqSize, <<page, page_size>>),
                                    "get_all", "post", 0, "", cache_key, Err("SqlxError", ""),
                                    complete_tracing_error(s1 \o <<"repo.get_all_posts", "offset_overflow",
                                                       "repo_err">>),
                                    db, nextId, cache)
                    [] OTHER -> answered
           ELSE answered

\* Variant: the cached entry is not returned early.
GetPost_IgnoresHit ==
    /\ Running("post")
    /\ \E post_id \in Ids, fail \in BOOLEAN :
        LET cache_key == "post:id=" \o ToString(post_id)
            s1 == start_tracing \o <<"cache_get">>
        IN IF fail
           THEN Finish("get_by_id", "post", post_id, "", cache_key, Err("SqlxError", ""),
                       complete_tracing_error(s1 \o <<"repo.get_post", "repo_err">>),
                       db, nextId, cache)
           ELSE IF post_id \in DOMAIN db["post"]
           THEN LET response == <<ApiResponse("Post retrieved successfully",
                                              PostResponseFrom(db["post"][post_id]))>>
                IN Finish("get_by_id", "post", post_id, "", cache_key, Ok(response[1]),
                          complete_tracing_success(s1 \o <<"repo.get_post", "cache_set">>),
                          db, nextId, set_to_cache(cache, cache_key, TRUE, response))
           ELSE Finish("get_by_id", "post", post_id, "", cache_key,
                       Err("NotFound", "Post with id " \o ToString(post_id) \o " not found"),
                       complete_tracing_error(s1 \o <<"repo.get_post", "repo_none">>),
                       db, nextId, cache)

GetPost ==
    /\ Running("post")
    /\ \E post_id \in Ids, fail \in BOOLEAN :
        LET cache_key == "post:id=" \o ToString(post_id)
            cached == get_from_cache("ApiResponse", FALSE, "PostResponse", cache_key)
            s1 == start_tracing \o <<"cache_get">>
        IN IF cached # <<>>
           THEN Finish("get_by_id", "post", post_id, "", cache_key, Ok(cached[1]),
                       complete_tracing_success(s1), db, nextId, cache)
           ELSE IF fail
           THEN Finish("get_by_id", "post", post_id, "", cache_key, Err("SqlxError", ""),
                       complete_tracing_error(s1 \o <<"repo.get_post", "repo_err">>),
                       db, nextId, cache)
           ELSE IF post_id \in DOMAIN db["post"]
           THEN LET response == <<ApiResponse("Post retrieved successfully",
                                              PostResponseFrom(db["post"][post_id]))>>
                IN Finish("get_by_id", "post", post_id, "", cache_key, Ok(response[1]),
                          complete_tracing_success(s1 \o <<"repo.get_post", "cache_set">>),
                          db, nextId, set_to_cache(cache, cache_key, TRUE, response))
           ELSE Finish("get_by_id", "post", post_id, "", cache_key,
                       Err("NotFound", "Post with id " \o ToString(post_id) \o " not found"),
                       complete_tracing_error(s1 \o <<"repo.get_post", "repo_none">>),
                       db, nextId, cache)

GetPostRelation ==
    /\ Running("post")
    /\ \E post_id \in Ids, fail \in BOOLEAN :
        LET cache_key == "post_relation:id=" \o ToString(post_id)
            cached == get_from_cache("ApiResponse", FALSE, "PostRelationResponse", cache_key)
            s1 == start_tracing \o <<"cache_get">>
            relations == PostRelationRows(post_id)
        IN IF cached # <<>>
           THEN Finish("get_relation", "post", post_id, "", cache_key, Ok(cached[1]),
                       complete_tracing_success(s1), db, nextId, cache)
           ELSE IF fail
           THEN Finish("get_relation", "post", post_id, "", cache_key, Err("SqlxError", ""),
                       complete_tracing_error(s1 \o <<"repo.get_post_relation", "repo_err">>),
                       db, nextId, cache)
           ELSE IF relations # {}
           THEN \E first_relation \in relations :
                LET response == ApiResponse("Post relation retrieved successfully", first_relation)
                IN Finish("get_relation", "post", post_id, "", cache_key, Ok(response),
                          complete_tracing_success(s1 \o <<"repo.get_post_relation", "cache_set">>),
                          db, nextId, set_to_cache(cache, cache_key, FALSE, response))
           ELSE Finish("get_relation", "post", post_id, "", cache_key,
                       Err("NotFound", "Post relation not found"),
                       complete_tracing_error(s1 \o <<"repo.get_post_relation", "repo_none">>),
                       db, nextId, cache)

CreatePost ==
    /\ Running("post")
    /\ \E title \in Names, fail \in BOOLEAN :
        LET s1 == start_tracing
        IN IF fail
           THEN Finish("create", "post", 0, "", "", Err("SqlxError", ""),
                       complete_tracing_error(s1 \o <<"repo.create_post", "repo_err">>),
                       db, nextId, cache)
           ELSE /\ nextId["post"] <= MaxId
                /\ LET post == [id |-> nextId["post"], title |-> title]
                       response == ApiResponse("Post created successfully", PostResponseFrom(post))
                   IN Finish("create", "post", post.id, "", "", Ok(response),
                             complete_tracing_success(s1 \o <<"repo.create_post">>),
                             SetTable("post", WithRow(db["post"], post)), Bump("post"), cache)

\* Variant: the cache entry is written before the repository has answered.
UpdatePost_CachesFirst ==
    /\ Running("post")
    /\ \E post_id \in Ids, title \in Names, fail \in BOOLEAN :
        LET s1 == start_tracing \o <<"cache_set">>
            cache_key == "post:id=" \o ToString(post_id)
            post == [id |-> post_id, title |-> title]
            response == ApiResponse("Post updated successfully", PostResponseFrom(post))
            written == set_to_cache(cache, cache_key, FALSE, response)
        IN IF fail \/ post_id \notin DOMAIN db["post"]
           THEN Finish("update", "post", post_id, "", cache_key, Err("SqlxError", ""),
                       complete_tracing_error(s1 \o <<"repo.update_post", "repo_err">>),
                       db, nextId, written)
           ELSE Finish("update", "post", post_id, "", cache_key, Ok(response),
                       complete_tracing_success(s1 \o <<"repo.update_post">>),
                       SetTable("post", WithRow(db["post"], post)), nextId, written)

UpdatePost ==
    /\ Running("post")
    /\ \E post_id \in Ids, title \in Names, fail \in BOOLEAN :
        LET s1 == start_tracing
            cache_key == "post:id=" \o ToString(post_id)
        IN IF fail \/ post_id \notin DOMAIN db["post"]
           THEN Finish("update", "post", post_id, "", cache_key, Err("SqlxError", ""),
                       complete_tracing_error(s1 \o <<"repo.update_post", "repo_err">>),
                       db, nextId, cache)
           ELSE LET post == [id |-> post_id, title |-> title]
                    response == ApiResponse("Post updated successfully", PostResponseFrom(post))
                IN Finish("update", "post", post_id, "", cache_key, Ok(response),
                          complete_tracing_success(s1 \o <<"repo.update_post", "cache_set">>),
                          SetTable("post", WithRow(db["post"], post)), nextId,
                          set_to_cache(cache, cache_key, FALSE, response))

DeletePost ==
    /\ Running("post")
    /\ \E post_id \in Ids, fail \in BOOLEAN :
        LET s1 == start_tracing
            cache_key == "post:id=" \o ToString(post_id)
        IN IF fail \/ post_id \notin DOMAIN db["post"]
           THEN Finish("delete", "post", post_id, "", cache_key, Err("SqlxError", ""),
                       complete_tracing_error(s1 \o <<"repo.delete_post", "repo_err">>),
                       db, nextId, cache)
           ELSE Finish("delete", "post", post_id, "", cache_key,
                       Ok(ApiResponse("Post deleted successfully", <<>>)),
                       complete_tracing_success(s1 \o <<"repo.delete_post", "cache_del">>),
                       SetTable("post", WithoutRow(db["post"], post_id)), nextId,
                       delete_from_cache(cache, cache_key))

\* --------------------------------------------- comment repository ----
CommentResponseFrom(row) ==
    [id |-> row.id, id_post_comment |-> row.id_post_comment, comment |-> row.comment]

\* find_by_id as CommentService::get_comment matches on it: a comment or an error.
CommentFindById(id) ==
    IF id \in DOMAIN db["comment"]
    THEN [ok |-> TRUE, row |-> db["comment"][id], kind |-> "", msg |-> ""]
    ELSE [ok |-> FALSE, row |-> [id |-> 0, id_post_comment |-> 0, comment |-> ""],
          kind |-> "NotFound", msg |-> "Comment with id " \o ToString(id) \o " not found"]

\* ----------------------------------------------- comment service ----
GetComments ==
    /\ Running("comment")
    /\ \E fail \in BOOLEAN :
        LET cache_key == "comments"
            cached == get_from_cache("Vec", TRUE, "CommentResponse", cache_key)
            s1 == start_tracing \o <<"cache_get">>
            t == db["comment"]
        IN IF cached # <<>>
           THEN Finish("get_all", "comment", 0, "", cache_key,
                       Ok(ApiResponse("Comments retrieved from cache", cached[1])),
                       complete_tracing_success(s1), db, nextId, cache)
           ELSE IF fail
           THEN Finish("get_all", "comment", 0, "", cache_key, Err("SqlxError", ""),
                       complete_tracing_error(s1 \o <<"repo.find_all", "repo_err">>),
                       db, nextId, cache)
           ELSE \E order \in Orderings(DOMAIN t) :
                LET response == SeqMap(CommentResponseFrom, SeqMap(LAMBDA i : t[i], order))
                IN Finish("get_all", "comment", 0, "", cache_key,
                          Ok(ApiResponse("Comments retrieved successfully", response)),
                          complete_tracing_success(s1 \o <<"repo.find_all", "cache_set">>),
                          db, nextId, set_to_cache(cache, cache_key, FALSE, response))

GetComment ==
    /\ Running("comment")
    /\ \E id \in Ids, fail \in BOOLEAN :
        LET cache_key == "comment:id=" \o ToString(id)
            cached == get_from_cache("ApiResponse", FALSE, "CommentResponse", cache_key)
            s1 == start_tracing \o <<"cache_get">>
            found == CommentFindById(id)
        IN IF cached # <<>>
           THEN Finish("get_by_id", "comment", id, "", cache_key, Ok(cached[1]),
                       complete_tracing_success(s1), db, nextId, cache)
           ELSE IF fail
           THEN Finish("get_by_id", "comment", id, "", cache_key, Err("SqlxError", ""),
                       complete_tracing_error(s1 \o <<"repo.find_by_id", "repo_err">>),
                       db, nextId, cache)
           ELSE IF found.ok
           THEN LET response == ApiResponse("Comment retrieved successfully",
                                            CommentResponseFrom(found.row))
                IN Finish("get_by_id", "comment", id, "", cache_key, Ok(response),
                          complete_tracing_success(s1 \o <<"repo.find_by_id">>) \o <<"cache_set">>,
                          db, nextId, set_to_cache(cache, cache_key, FALSE, response))
           ELSE Finish("get_by_id", "comment", id, "", cache_key, Err(found.kind, found.msg),
                       complete_tracing_error(s1 \o <<"repo.find_by_id", "repo_err">>),
                       db, nextId, cache)

CreateComment ==
    /\ Running("comment")
    /\ \E id_post_comment \in Ids, comment \in Names, fail \in BOOLEAN :
        LET s1 == start_tracing
        IN IF fail
           THEN Finish("create", "comment", 0, "", "", Err("SqlxError", ""),
                       complete_tracing_error(s1 \o <<"repo.create", "repo_err">>),
                       db, nextId, cache)
           ELSE /\ nextId["comment"] <= MaxId
                /\ LET row == [id |-> nextId["comment"], id_post_comment |-> id_post_comment,
                               comment |-> comment]
                   IN Finish("create", "comment", row.id, "", "",
                             Ok(ApiResponse("Comment created successfully", CommentResponseFrom(row))),
                             complete_tracing_success(s1 \o <<"repo.create">>),
                             SetTable("comment", WithRow(db["comment"], row)), Bump("comment"), cache)

\* UpdateCommentRequest.id_post_comment is the id the repository updates.
UpdateComment ==
    /\ Running("comment")
    /\ \E id_post_comment \in Ids, text \in Names, fail \in BOOLEAN :
        LET s1 == start_tracing
            cache_key == "comment:id=" \o ToString(id_post_comment)
        IN IF fail
           THEN Finish("update", "comment", id_post_comment, "", cache_key, Err("SqlxError", ""),
                       complete_tracing_error(s1 \o <<"repo.update", "repo_err">>),
                       db, nextId, cache)
           ELSE IF id_post_comment \notin DOMAIN db["comment"]
           THEN Finish("update", "comment", id_post_comment, "", cache_key,
                       Err("NotFound", "Comment with ID " \o ToString(id_post_comment) \o " not found"),
                       complete_tracing_error(s1 \o <<"repo.update", "repo_err">>),
                       db, nextId, cache)
           ELSE LET comment == [db["comment"][id_post_comment] EXCEPT !.comment = text]
                IN Finish("update", "comment", id_post_comment, "", cache_key,
                          Ok(ApiResponse("Comment updated successfully", CommentResponseFrom(comment))),
                          complete_tracing_success(s1 \o <<"repo.update">>) \o <<"cache_set">>,
                          SetTable("comment", WithRow(db["comment"], comment)), nextId,
                          set_to_cache(cache, cache_key, FALSE, comment))

DeleteComment ==
    /\ Running("comment")
    /\ \E id \in Ids, fail \in BOOLEAN :
        LET s1 == start_tracing
            cache_key == "comment:id=" \o ToString(id)
        IN IF fail
           THEN Finish("delete", "comment", id, "", cache_key, Err("SqlxError", ""),
                       complete_tracing_error(s1 \o <<"repo.delete", "repo_err">>),
                       db, nextId, cache)
           ELSE IF id \notin DOMAIN db["comment"]
           THEN Finish("delete", "comment", id, "", cache_key,
                       Err("NotFound", "Comment with ID " \o ToString(id) \o " not found"),
                       complete_tracing_error(s1 \o <<"repo.delete", "repo_err">>),
                       db, nextId, cache)
           ELSE Finish("delete", "comment", id, "", cache_key,
                       Ok(ApiResponse("Comment deleted successfully", <<>>)),
                       complete_tracing_success(s1 \o <<"repo.delete", "cache_del">>),
                       SetTable("comment", WithoutRow(db["comment"], id)), nextId,
                       delete_from_cache(cache, cache_key))

\* ------------------------------------------------ user repository ----
UserResponseFrom(row) == [id |-> row.id, firstname |-> row.firstname, email |-> row.email]

IdsByEmail(email) == {i \in DOMAIN db["user"] : db["user"][i].email = email}

\* find_by_email_exists: COUNT(id) WHERE email = ? is positive
FindByEmailExists(email) == IdsByEmail(email) # {}

\* update_user: only the fields that are Some are written
UpdatedUser(row, firstname, email) ==
    [row EXCEPT !.firstname = IF firstname = <<>> THEN @ ELSE firstname[1],
                !.email = IF email = <<>> THEN @ ELSE email[1]]

\* users.email is unique: a second row with the same email is refused by the database
EmailTaken(id, email) ==
    email # <<>> /\ \E i \in DOMAIN db["user"] : i # id /\ db["user"][i].email = email[1]

\* Hashing::hash_password and Hashing::compare_password (bcrypt)
HashPassword(password) == "h:" \o password
\* Variant: every password is accepted.
ComparePassword_Any(hashed_password, password) == TRUE

ComparePassword(hashed_password, password) == hashed_password = HashPassword(password)

\* JwtConfig::generate_token
GenerateToken(user_id) == "jwt:" \o ToString(user_id)

\* -------------------------------------------------- user service ----
GetUsers ==
    /\ Running("user")
    /\ \E reqPage \in Pages, reqSize \in PageSizes, reqSearch \in Searches, fail \in BOOLEAN :
        LET page == Max1(reqPage)
            page_size == Max1(reqSize)
            search == IF reqSearch = "" THEN <<>> ELSE <<reqSearch>>
            cache_key == "users:page=" \o ToString(page) \o ":size=" \o ToString(page_size)
                            \o ":search=" \o reqSearch
            cached == get_from_cache("ApiResponsePagination", TRUE, "UserResponse", cache_key)
            s1 == start_tracing \o <<"cache_get">>
            t == db["user"]
            ids == {i \in DOMAIN t : search = <<>> \/ Like(t[i].email, search[1])}
            users == PageOf(SeqMap(LAMBDA i : t[i], SortedIds(ids)), page, page_size)
            total_items == Cardinality(ids)
            response == ApiResponsePagination("Users retrieved successfully",
                            SeqMap(UserResponseFrom, users),
                            Pagination(page, page_size, total_items,
                                       TotalPages(total_items, page_size)))
            answered ==
                FinishCall(ListCall(reqPage, reqSize, <<page, page_size>>),
                           "get_all", "user", 0, "", cache_key, Ok(response),
                           complete_tracing_success(s1 \o <<"repo.find_all", "cache_set">>),
                           db, nextId, set_to_cache(cache, cache_key, FALSE, response))
        IN IF cached # <<>>
           THEN FinishCall(ListCall(reqPage, reqSize, <<>>),
                       "get_all", "user", 0, "", cache_key, Ok(cached[1]),
                       complete_tracing_success(s1), db, nextId, cache)
           ELSE IF fail
           THEN FinishCall(ListCall(reqPage, reqSize, <<page, page_size>>),
                       "get_all", "user", 0, "", cache_key, Err("SqlxError", ""),
                       complete_tracing_error(s1 \o <<"repo.find_all", "repo_err">>),
                       db, nextId, cache)
           ELSE IF OffsetOverflows(page, page_size)
           THEN \E outcome \in OverflowOutcomes(page, page_size) :
                  CASE outcome = "panic" ->
                         FinishCall(ListCall(reqPage, reqSize, <<page, page_size>>),
                                    "get_all", "user", 0, "", cache_key, Panicked,
                                    s1 \o <<"repo.find_all", "offset_overflow", "panic">>,
                                    db, nextId, cache)
                    [] outcome = "refused" ->
                         FinishCall(ListCall(reqPage, reqSize, <<page, page_size>>),
                                    "get_all", "user", 0, "", cache_key, Err("SqlxError", ""),
                                    complete_tracing_error(s1 \o <<"repo.find_all", "offset_overflow",
                                                       "repo_err">>),
                                    db, nextId, cache)
                    [] OTHER -> answered
           ELSE answered

CreateUser ==
    /\ Running("user")
    /\ \E firstname \in FirstNames, email \in Emails, password \in NewPasswords, failAt \in 0..2 :
        LET s1 == start_tracing \o <<"repo.find_by_email_exists">>
        IN IF failAt = 1
           THEN Finish("create", "user", 0, email, "", Err("SqlxError", ""),
                       complete_tracing_error(s1 \o <<"repo_err">>), db, nextId, cache)
           ELSE IF FindByEmailExists(email)
           THEN Finish("create", "user", 0, email, "", Err("EmailAlreadyExists", ""),
                       complete_tracing_error(s1), db, nextId, cache)
           ELSE IF failAt = 2
           THEN Finish("create", "user", 0, email, "", Err("SqlxError", ""),
                       complete_tracing_error(s1 \o <<"repo.create_user", "repo_err">>),
                       db, nextId, cache)
           ELSE /\ nextId["user"] <= MaxId
                /\ LET user == [id |-> nextId["user"], firstname |-> firstname,
                                email |-> email, password |-> password]
                   IN Finish("create", "user", user.id, email, "",
                             Ok(ApiResponse("User created successfully", UserResponseFrom(user))),
                             complete_tracing_success(s1 \o <<"repo.create_user">>),
                             SetTable("user", WithRow(db["user"], user)), Bump("user"), cache)

FindById ==
    /\ Running("user")
    /\ \E id \in Ids, fail \in BOOLEAN :
        LET cache_key == "user:id=" \o ToString(id)
            cached == get_from_cache("ApiResponse", FALSE, "UserResponse", cache_key)
            s1 == start_tracing \o <<"cache_get">>
        IN IF cached # <<>>
           THEN Finish("get_by_id", "user", id, "", cache_key, Ok(cached[1]),
                       complete_tracing_success(s1), db, nextId, cache)
           ELSE IF fail
           THEN Finish("get_by_id", "user", id, "", cache_key, Err("SqlxError", ""),
                       complete_tracing_error(s1 \o <<"repo.find_by_id", "repo_err">>),
                       db, nextId, cache)
           ELSE IF id \in DOMAIN db["user"]
           THEN LET response == <<ApiResponse("User retrieved successfully",
                                              UserResponseFrom(db["user"][id]))>>
                IN Finish("get_by_id", "user", id, "", cache_key, Ok(response[1]),
                          complete_tracing_success(s1 \o <<"repo.find_by_id", "cache_set">>),
                          db, nextId, set_to_cache(cache, cache_key, TRUE, response))
           ELSE Finish("get_by_id", "user", id, "", cache_key,
                       Err("NotFound", "User with id " \o ToString(id) \o " not found"),
                       complete_tracing_error(s1 \o <<"repo.find_by_id", "repo_none">>),
                       db, nextId, cache)

UpdateUser ==
    /\ Running("user")
    /\ \E id \in Ids, firstname \in {<<>>} \cup {<<n>> : n \in Names},
          email \in {<<>>} \cup {<<e>> : e \in Emails}, fail \in BOOLEAN :
        LET s1 == start_tracing \o <<"repo.update_user">>
        IN IF fail \/ id \notin DOMAIN db["user"] \/ EmailTaken(id, email)
           THEN Finish("update", "user", id, "", "", Err("SqlxError", ""),
                       complete_tracing_error(s1 \o <<"repo_err">>), db, nextId, cache)
           ELSE LET user == UpdatedUser(db["user"][id], firstname, email)
                    user_email == user.email
                    cache_key == "user:email=" \o user_email
                    response == <<ApiResponse("User updated successfully", UserResponseFrom(user))>>
                IN Finish("update", "user", id, user_email, cache_key, Ok(response[1]),
                          complete_tracing_success(s1 \o <<"cache_set">>),
                          SetTable("user", WithRow(db["user"], user)), nextId,
                          set_to_cache(cache, cache_key, TRUE, response))

DeleteUser ==
    /\ Running("user")
    /\ \E email \in Emails, fail \in BOOLEAN :
        LET s1 == start_tracing \o <<"repo.delete_user">>
            cache_key == "user:email=" \o email
            gone == IdsByEmail(email)
        IN IF fail
           THEN Finish("delete", "user", 0, email, cache_key, Err("SqlxError", ""),
                       complete_tracing_error(s1 \o <<"repo_err">>), db, nextId, cache)
           ELSE Finish("delete", "user", IF gone = {} THEN 0 ELSE CHOOSE i \in gone : TRUE,
                       email, cache_key,
                       Ok(ApiResponse("User deleted successfully", <<>>)),
                       complete_tracing_success(s1 \o <<"cache_del">>),
                       SetTable("user", [i \in DOMAIN db["user"] \ gone |-> db["user"][i]]), nextId,
                       delete_from_cache(cache, cache_key))

\* -------------------------------------------------- auth service ----
\* Variant: the insert is attempted without asking whether the email exists.
RegisterUser_Unchecked ==
    /\ Running("auth")
    /\ \E firstname \in FirstNames, email \in Emails, password \in NewPasswords, failAt \in 0..3 :
        LET s1 == start_tracing
        IN IF failAt = 2
           THEN Finish("register", "auth", 0, email, "", Err("HashingError", ""),
                       complete_tracing_error(s1 \o <<"hash_password", "hash_err">>),
                       db, nextId, cache)
           ELSE IF failAt = 3 \/ FindByEmailExists(email)
           THEN Finish("register", "auth", 0, email, "", Err("SqlxError", ""),
                       complete_tracing_error(s1 \o <<"hash_password", "repo.create_user", "repo_err">>),
                       db, nextId, cache)
           ELSE /\ nextId["user"] <= MaxId
                /\ LET hashed_password == HashPassword(password)
                       user == [id |-> nextId["user"], firstname |-> firstname,
                                email |-> email, password |-> hashed_password]
                   IN Finish("register", "auth", user.id, email, "",
                             Ok(ApiResponse("User registered successfully", UserResponseFrom(user))),
                             complete_tracing_success(s1 \o <<"hash_password", "repo.create_user">>),
                             SetTable("user", WithRow(db["user"], user)), Bump("user"), cache)

RegisterUser ==
    /\ Running("auth")
    /\ \E firstname \in FirstNames, email \in Emails, password \in NewPasswords, failAt \in 0..3 :
        LET s1 == start_tracing \o <<"repo.find_by_email_exists">>
        IN IF failAt = 1
           THEN Finish("register", "auth", 0, email, "", Err("SqlxError", ""),
                       complete_tracing_error(s1 \o <<"repo_err">>), db, nextId, cache)
           ELSE IF FindByEmailExists(email)
           THEN Finish("register", "auth", 0, email, "", Err("EmailAlreadyExists", ""),
                       complete_tracing_error(s1), db, nextId, cache)
           ELSE IF failAt = 2
           THEN Finish("register", "auth", 0, email, "", Err("HashingError", ""),
                       complete_tracing_error(s1 \o <<"hash_password", "hash_err">>),
                       db, nextId, cache)
           ELSE IF failAt = 3
           THEN Finish("register", "auth", 0, email, "", Err("SqlxError", ""),
                       complete_tracing_error(s1 \o <<"hash_password", "repo.create_user", "repo_err">>),
                       db, nextId, cache)
           ELSE /\ nextId["user"] <= MaxId
                /\ LET hashed_password == HashPassword(password)
                       user == [id |-> nextId["user"], firstname |-> firstname,
                                email |-> email, password |-> hashed_password]
                   IN Finish("register", "auth", user.id, email, "",
                             Ok(ApiResponse("User registered successfully", UserResponseFrom(user))),
                             complete_tracing_success(s1 \o <<"hash_password", "repo.create_user">>),
                             SetTable("user", WithRow(db["user"], user)), Bump("user"), cache)

LoginUser ==
    /\ Running("auth")
    /\ \E email \in Emails, password \in Passwords, failAt \in 0..2 :
        LET s1 == start_tracing \o <<"repo.find_by_email">>
            found == IdsByEmail(email)
        IN IF failAt = 1
           THEN FinishGiven(password, NoList, "login", "auth", 0, email, "", Err("SqlxError", ""),
                       complete_tracing_error(s1 \o <<"repo_err">>), db, nextId, cache)
           ELSE IF found = {}
           THEN FinishGiven(password, NoList, "login", "auth", 0, email, "", Err("NotFound", "User not found"),
                       complete_tracing_error(s1 \o <<"repo_none">>), db, nextId, cache)
           ELSE LET user == db["user"][CHOOSE i \in found : TRUE]
                    s2 == s1 \o <<"compare_password">>
                IN IF ~ComparePassword(user.password, password)
                   THEN FinishGiven(password, NoList, "login", "auth", user.id, email, "", Err("InvalidCredentials", ""),
                               complete_tracing_error(s2), db, nextId, cache)
                   ELSE IF failAt = 2
                   THEN FinishGiven(password, NoList, "login", "auth", user.id, email, "", Err("JwtError", ""),
                               complete_tracing_error(s2 \o <<"generate_token", "token_err">>),
                               db, nextId, cache)
                   ELSE FinishGiven(password, NoList, "login", "auth", user.id, email, "",
                               Ok(ApiResponse("Login successful", GenerateToken(user.id))),
                               complete_tracing_success(s2 \o <<"generate_token">>),
                               db, nextId, cache)

\* ------------------------------------------------------- environment ----
\* DependenciesInject::new: the Redis client is built and pinged, both unwrapped.
Startup ==
    /\ phase = "boot"
    /\ phase' = IF cacheUp THEN "running" ELSE "panicked"
    /\ UNCHANGED <<db, nextId, cache, cacheUp, spansOpened, spansCompleted, spansAbandoned,
                   last, listReq, calc, gw, race, req, signup, locks>>

\* The database may hold rows left by an earlier run when the service starts:
\* a category, a registered user, and a post with one comment on it.
SeedCategories == [i \in {1} |-> [id |-> 1, name |-> "a"]]
SeedUsers == [i \in {1} |-> [id |-> 1, firstname |-> "a", email |-> "a",
                              password |-> HashPassword("p")]]
SeedPosts == [i \in {1} |-> [id |-> 1, title |-> "a"]]
SeedComments == [i \in {1} |-> [id |-> 1, id_post_comment |-> 1, comment |-> "a"]]

NoOp == [op |-> "none", svc |-> "", id |-> 0, email |-> "", password |-> "", key |-> "",
         res |-> OkNone, rpc |-> NoReply, out |-> [tag |-> "Err", env |-> <<>>],
         steps |-> <<>>, cacheOk |-> TRUE]

\* What the environment does between operations leaves a mark in last.
Mark(what) == [NoOp EXCEPT !.op = what, !.svc = last.svc]

\* A cache entry reaches the end of its TTL (set_ex with 60 * 5 seconds).
Expire ==
    /\ phase = "running"
    /\ \E key \in DOMAIN cache :
        cache' = [k \in DOMAIN cache \ {key} |-> cache[k]]
    /\ last' = Mark("expire")
    /\ listReq' = NoList
    /\ UNCHANGED <<phase, db, nextId, cacheUp, spansOpened, spansCompleted, spansAbandoned, calc, gw, race, req, signup, locks>>

\* Redis becomes unreachable / reachable again.
CacheOutage ==
    /\ cacheUp
    /\ cacheUp' = FALSE
    /\ last' = Mark("outage")
    /\ listReq' = NoList
    /\ UNCHANGED <<phase, db, nextId, cache, spansOpened, spansCompleted, spansAbandoned, calc, gw, race, req, signup, locks>>

CacheRecover ==
    /\ ~cacheUp
    /\ cacheUp' = TRUE
    /\ last' = Mark("recover")
    /\ listReq' = NoList
    /\ UNCHANGED <<phase, db, nextId, cache, spansOpened, spansCompleted, spansAbandoned, calc, gw, race, req, signup, locks>>

Init ==
    /\ phase = "boot"
    /\ \E seeded \in BOOLEAN :
        /\ db = [t \in Tables |-> IF ~seeded THEN EmptyCache
                               ELSE CASE t = "category" -> SeedCategories
                                      [] t = "post" -> SeedPosts
                                      [] t = "comment" -> SeedComments
                                      [] OTHER -> SeedUsers]
        /\ nextId = [t \in Tables |-> IF seeded THEN 2 ELSE 1]
    /\ cache = EmptyCache
    /\ cacheUp \in BOOLEAN
    /\ spansOpened = 0
    /\ spansCompleted = 0
    /\ spansAbandoned = 0
    /\ calc = NoCalc
    /\ gw = NoGateway
    /\ race = NoRace
    /\ req = NoReq
    /\ signup = NoSignup
    /\ locks = NoLocks
    /\ last = NoOp
    /\ listReq = NoList

Next ==
    \/ Startup
    \/ Expire
    \/ CacheOutage
    \/ CacheRecover
    \/ GetCategories
    \/ GetCategory
    \/ CreateCategory
    \/ UpdateCategory
    \/ DeleteCategory
    \/ GetAllPosts
    \/ GetPost
    \/ GetPostRelation
    \/ CreatePost
    \/ UpdatePost
    \/ DeletePost
    \/ GetComments
    \/ GetComment
    \/ CreateComment
    \/ UpdateComment
    \/ DeleteComment
    \/ GetUsers
    \/ CreateUser
    \/ FindById
    \/ UpdateUser
    \/ DeleteUser
    \/ RegisterUser
    \/ LoginUser

Spec == Init /\ [][Next]_vars

\* ---------------------------------------------------- vocabulary ----
RepoSteps == {"repo.find_all", "repo.find_by_id", "repo.create", "repo.update", "repo.delete",
              "repo.get_all_posts", "repo.get_post", "repo.get_post_relation",
              "repo.create_post", "repo.update_post", "repo.delete_post",
              "repo.find_by_email_exists", "repo.create_user", "repo.find_by_email",
              "repo.update_user", "repo.delete_user"}
CacheWrites == {"cache_set", "cache_del"}
ReadOps == {"get_all", "get_by_id", "get_relation"}
WriteOps == {"create", "update", "delete", "register"}
ServiceOps == ReadOps \cup WriteOps \cup {"login"}

\* An operation ran in this step.
OpStep == spansOpened' # spansOpened

\* What the cache returns, before the step, for the key and type the operation reads.
CachedFor(rec) ==
    IF rec.op = "get_all" /\ rec.svc = "comment"
    THEN get_from_cache("Vec", TRUE, "CommentResponse", rec.key)
    ELSE IF rec.op = "get_all"
    THEN get_from_cache("ApiResponsePagination", TRUE,
                        CASE rec.svc = "category" -> "CategoryResponse"
                          [] rec.svc = "post" -> "PostResponse"
                          [] OTHER -> "UserResponse", rec.key)
    ELSE IF rec.op = "get_relation"
    THEN get_from_cache("ApiResponse", FALSE, "PostRelationResponse", rec.key)
    ELSE get_from_cache("ApiResponse", FALSE,
                        CASE rec.svc = "category" -> "CategoryResponse"
                          [] rec.svc = "post" -> "PostResponse"
                          [] rec.svc = "comment" -> "CommentResponse"
                          [] OTHER -> "UserResponse", rec.key)

Returned(rec) ==
    IF rec.op = "get_all" /\ rec.svc = "comment" THEN rec.res.env.data ELSE rec.res.env

\* ------------------------------------------------------------ C1 ----
\* C1 (as claimed): right after a successful update, with the cache reachable,
\* get_by_id of the same id succeeds with the updated data and is served
\* from the cache (no repository call).
C1_UpdateThenGetFromCache ==
    [][(/\ last.op = "update" /\ last.res.tag = "Ok" /\ last.cacheOk /\ cacheUp
        /\ OpStep
        /\ last'.op = "get_by_id" /\ last'.svc = last.svc /\ last'.id = last.id)
       => (/\ last'.res.tag = "Ok"
           /\ last'.res.env.data = last.res.env.data
           /\ Count(last'.steps, RepoSteps) = 0)]_vars

\* ------------------------------------------------------------ C2 ----
\* C2 (as claimed): right after a successful delete of a record, with the cache
\* reachable, get_by_id of that record's id goes to the repository and does
\* not return a success envelope.
C2_DeleteThenGetMisses ==
    [][(/\ last.op = "delete" /\ last.res.tag = "Ok" /\ last.cacheOk /\ cacheUp
        /\ OpStep
        /\ last'.op = "get_by_id" /\ EntityOf(last'.svc) = EntityOf(last.svc)
        /\ last'.id = last.id)
       => (/\ last'.res.tag # "Ok"
           /\ Count(last'.steps, RepoSteps) > 0)]_vars

\* ------------------------------------------------------------ C3 ----
\* C3: a read operation whose key has a readable cache entry returns that
\* entry as a success and makes no repository call and no cache write.
C3_CacheHitShortCircuits ==
    [][(OpStep /\ last'.op \in ReadOps /\ CachedFor(last') # <<>>)
       => (/\ last'.res.tag = "Ok"
           /\ Returned(last') = CachedFor(last')[1]
           /\ Count(last'.steps, RepoSteps) = 0
           /\ Count(last'.steps, CacheWrites) = 0
           /\ cache' = cache)]_vars

C3_Witness ==
    /\ last.op \in ReadOps
    /\ last.res.tag = "Ok"
    /\ last.steps = <<"start", "cache_get", "complete_success">>

\* ------------------------------------------------------------ C4 ----
\* C4: a create, update or delete whose repository call fails returns an error
\* and leaves the cache as it was; a cache write or delete is only issued
\* after a repository call that succeeded.
C4_FailedWriteKeepsCache ==
    [][(OpStep /\ last'.op \in WriteOps)
       => (/\ "repo_err" \in {last'.steps[i] : i \in DOMAIN last'.steps}
              => (cache' = cache /\ last'.res.tag = "Err"
                  /\ Count(last'.steps, CacheWrites) = 0)
           /\ \A i \in DOMAIN last'.steps :
                last'.steps[i] \in CacheWrites
                  => \E j \in 1..(i - 1) : last'.steps[j] \in RepoSteps
           /\ last'.res.tag = "Err" => (cache' = cache /\ db' = db))]_vars

C4_Witness ==
    /\ last.op \in {"update", "delete"}
    /\ last.res.tag = "Err"
    /\ Count(last.steps, {"repo_err"}) = 1
    /\ last.cacheOk
    /\ last.key \in DOMAIN cache

NotFoundMessage(svc, id) ==
    (CASE svc = "category" -> "Category"
       [] svc = "post" -> "Post"
       [] svc = "comment" -> "Comment"
       [] OTHER -> "User") \o " with id " \o ToString(id) \o " not found"

\* C6 (as claimed): a get_by_id for which the repository has no row returns an
\* error with status NOT_FOUND whose message names the id.
C6_AbsentIsNotFound ==
    (/\ last.op = "get_by_id"
     /\ Count(last.steps, RepoSteps) > 0
     /\ last.id \notin DOMAIN db[EntityOf(last.svc)]
     /\ last.res.err.status # "INTERNAL")
    => (/\ last.res.tag = "Err"
        /\ last.res.err.status = "NOT_FOUND"
        /\ last.res.err.message = NotFoundMessage(last.svc, last.id))

\* ------------------------------------------------------------ C7 ----
\* C7 (as claimed): the service runs without the cache from start-up on, and an
\* operation that runs while the cache is unreachable is answered from the
\* repository, never with a cache failure.
C7_CacheNeverRequired ==
    /\ phase # "panicked"
    /\ (last.op \in ServiceOps /\ ~last.cacheOk /\ last.op \in ReadOps)
         => Count(last.steps, RepoSteps) > 0
    /\ (last.op \in ServiceOps /\ ~last.cacheOk /\ last.res.tag = "Err")
         => last.res.err.status \in {"NOT_FOUND", "CONFLICT", "INVALID_CREDENTIALS", "INTERNAL"}

Rank(step) ==
    CASE step = "start" -> 0
      [] step = "cache_get" -> 1
      [] step \in CacheWrites -> 3
      [] step \in Completions -> 4
      [] OTHER -> 2

\* C9 (as claimed): the steps of an operation run in the order trace start,
\* cache check, repository call, cache write, trace end.
C9_StepsInOrder ==
    last.op \in ServiceOps
      => \A i, j \in DOMAIN last.steps :
            i < j => Rank(last.steps[i]) <= Rank(last.steps[j])

\* ----------------------------------------------------------- C10 ----
\* C10: an operation calls each repository method at most once, and once a
\* repository call has failed it makes no further call and returns an error.
C10_NoRetry ==
    last.op \in ServiceOps
      => (/\ \A m \in RepoSteps : Count(last.steps, {m}) <= 1
          /\ \A i \in DOMAIN last.steps :
                last.steps[i] = "repo_err"
                  => (/\ last.res.tag = "Err"
                      /\ \A j \in DOMAIN last.steps : j > i => last.steps[j] \in Completions))

C10_Witness ==
    /\ last.op = "create" /\ last.svc = "user"
    /\ last.res.tag = "Err"
    /\ last.steps = <<"start", "repo.find_by_email_exists", "repo.create_user", "repo_err",
                      "complete_error">>

\* ---------------------------------------- page arithmetic on its own ----
MaxPage == 2
MaxSize == 11
MaxItems == 25
PageInputs == -1..MaxPage
SizeInputs == -1..MaxSize
ItemCounts == 0..MaxItems

WithEntry(f, k, v) == [x \in DOMAIN f \cup {k} |-> IF x = k THEN v ELSE f[x]]

\* The first statements of a list method, applied to the request's page and page_size.
NormalizeIn(svc, pair) ==
    /\ svc \notin DOMAIN calc.norm
    /\ calc' = [calc EXCEPT !.norm = WithEntry(@, svc, pair)]
    /\ UNCHANGED <<phase, db, nextId, cache, cacheUp, spansOpened, spansCompleted,
                   spansAbandoned, last, listReq, gw, race, req, signup, locks>>

NormalizeCategories ==
    NormalizeIn("category", <<NormPageCategory(calc.page), NormSizeCategory(calc.page_size)>>)

NormalizePosts == NormalizeIn("post", <<Max1(calc.page), Max1(calc.page_size)>>)

NormalizeUsers == NormalizeIn("user", <<Max1(calc.page), Max1(calc.page_size)>>)

\* total_pages as a list method computes it from the repository's count and
\* its normalized page_size
ComputeTotalPages ==
    /\ \E svc \in DOMAIN calc.norm \ DOMAIN calc.total_pages :
          calc' = [calc EXCEPT !.total_pages =
                      WithEntry(@, svc, TotalPages(calc.total_items, calc.norm[svc][2]))]
    /\ UNCHANGED <<phase, db, nextId, cache, cacheUp, spansOpened, spansCompleted,
                   spansAbandoned, last, listReq, gw, race, req, signup, locks>>

InitCalc ==
    /\ phase = "boot"
    /\ db = [t \in Tables |-> EmptyCache]
    /\ nextId = [t \in Tables |-> 1]
    /\ cache = EmptyCache
    /\ cacheUp = TRUE
    /\ spansOpened = 0
    /\ spansCompleted = 0
    /\ spansAbandoned = 0
    /\ last = NoOp
    /\ listReq = NoList
    /\ gw = NoGateway
    /\ race = NoRace
    /\ req = NoReq
    /\ signup = NoSignup
    /\ locks = NoLocks
    /\ \E page \in PageInputs, page_size \in SizeInputs, total_items \in ItemCounts :
          calc = [NoCalc EXCEPT !.page = page, !.page_size = page_size,
                                !.total_items = total_items]

NextCalc ==
    \/ NormalizeCategories
    \/ NormalizePosts
    \/ NormalizeUsers
    \/ ComputeTotalPages

SpecCalc == InitCalc /\ [][NextCalc]_vars

\* ---------------------------------------------------------- gateway ----
\* The REST gateway in front of the RPC service, for requests that passed the
\* jwt::auth layer.  Several requests are served at once; a request's steps
\* are the points where its task can be suspended: waiting for the service's
\* client mutex, waiting for the RPC's answer, waiting for the metrics mutex.
CrudOps == {"get_all", "get_by_id", "create", "update", "delete"}

\* The routes of auth_routes, user_routes, category_routes and comment_routes.
Handlers ==
    {[svc |-> svc, op |-> op] : svc \in {"user", "category", "comment"}, op \in CrudOps}
    \cup {[svc |-> "auth", op |-> op] : op \in {"register", "login", "get_me"}}

\* Request bodies: the id, the name-like fields, the email and the password.
Bodies == [id : {0, 1}, text : {"", "a"}, email : {"a", "a@b.c"}, password : {"p", "secret"}]

\* #[validate(email)] over the emails of Bodies
IsEmail(email) == email = "a@b.c"

\* The Validate rules derived on the request type of each handler's body; a
\* handler without a body has nothing to violate.  The optional fields of
\* UpdateUserRequest are taken as given.
Validate(h, body) ==
    CASE h.svc = "category" /\ h.op = "create" -> Len(body.text) >= 1
      [] h.svc = "category" /\ h.op = "update" -> body.id >= 1 /\ Len(body.text) >= 1
      [] h.svc = "comment" /\ h.op \in {"create", "update"} ->
           body.id >= 1 /\ Len(body.text) >= 1
      [] (h.svc = "user" /\ h.op \in {"create", "update"}) \/ (h.svc = "auth" /\ h.op = "register") ->
           Len(body.text) >= 1 /\ IsEmail(body.email) /\ Len(body.password) >= 6
      [] h.svc = "auth" /\ h.op = "login" -> IsEmail(body.email) /\ Len(body.password) >= 6
      [] OTHER -> TRUE

\* The extractor each handler takes its body with.
Extractor(h) ==
    CASE h.svc = "comment" /\ h.op = "create" -> "Json"
      [] h.op \in {"create", "update", "register", "login"} -> "SimpleValidatedJson"
      [] OTHER -> "none"

\* SimpleValidatedJson<T>: the body is handed to the handler only if it
\* satisfies T's rules.
SimpleValidatedJson(h, body) == Validate(h, body)

\* The handler's body runs.
Accepts(h, body) ==
    IF Extractor(h) = "SimpleValidatedJson" THEN SimpleValidatedJson(h, body) ELSE TRUE

\* Code's Display, used by status.code().to_string()
CodeToString(code) ==
    CASE code = "NOT_FOUND" -> "Some requested entity was not found"
      [] code = "INTERNAL" -> "Internal error"
      [] code = "UNAUTHENTICATED" -> "The request does not have valid authentication credentials"
      [] code = "UNAVAILABLE" -> "The service is currently unavailable"
      [] OTHER -> "The operation completed successfully"

\* The status codes the RPC can be answered with: what the server's handler
\* sends, or UNAVAILABLE when the server cannot be reached.
AnswerCodes(h) ==
    {"OK", "UNAVAILABLE", ErrStatus(h.op, "").code}
    \cup (IF h.op \in {"get_by_id", "update", "get_me"} THEN {"NOT_FOUND"} ELSE {})

\* The match on the service's result at the end of each handler.
HttpStatus(h, code) ==
    IF code = "OK" THEN (IF h.op = "create" THEN 201 ELSE 200)
    ELSE IF h.op = "login" THEN 401
    ELSE IF /\ h.svc \in {"category", "comment"}
            /\ h.op \in {"get_by_id", "update"}
            /\ CodeToString(code) = "NOT_FOUND"
    THEN 404
    ELSE 500

GatewayStep(t, pc, h, valid, steps, code, http, client) ==
    /\ gw' = [pc |-> [gw.pc EXCEPT ![t] = pc],
              handler |-> [gw.handler EXCEPT ![t] = h],
              valid |-> [gw.valid EXCEPT ![t] = valid],
              steps |-> [gw.steps EXCEPT ![t] = steps],
              code |-> [gw.code EXCEPT ![t] = code],
              http |-> [gw.http EXCEPT ![t] = http],
              client |-> client]
    /\ UNCHANGED <<phase, db, nextId, cache, cacheUp, spansOpened, spansCompleted,
                   spansAbandoned, last, listReq, calc, race, req, signup, locks>>

\* A request reaches its handler: the extractor runs, and unless it rejects
\* the body the handler calls the gateway service, which starts its span
\* (AuthService counts the request in metrics first) and asks for the client.
Accept(t) ==
    /\ gw.pc[t] = "idle"
    /\ \E h \in Handlers, body \in Bodies :
        IF ~Accepts(h, body)
        THEN GatewayStep(t, "rejected", h, FALSE, <<>>, "", 0, gw.client)
        ELSE GatewayStep(t, "lock", h, Validate(h, body),
                         IF h.svc = "auth" THEN <<"metrics", "start">> ELSE <<"start">>,
                         "", 0, gw.client)

\* self.client.lock().await returns the guard and the RPC is sent.
Acquire(t) ==
    /\ gw.pc[t] = "lock"
    /\ gw.client[gw.handler[t].svc] = 0
    /\ GatewayStep(t, "rpc", gw.handler[t], gw.valid[t], Append(gw.steps[t], "rpc"), "", 0,
                   [gw.client EXCEPT ![gw.handler[t].svc] = t])

\* The RPC is answered.  AuthService drops the guard at the end of its block,
\* adds the completion event and returns to the handler; the other services
\* keep the guard (a temporary of the match) and go on to complete the span.
Answer(t) ==
    /\ gw.pc[t] = "rpc"
    /\ \E code \in AnswerCodes(gw.handler[t]) :
        IF gw.handler[t].svc = "auth"
        THEN GatewayStep(t, "done", gw.handler[t], gw.valid[t],
                         Append(gw.steps[t], "completion_event"), code,
                         HttpStatus(gw.handler[t], code),
                         [gw.client EXCEPT !["auth"] = 0])
        ELSE GatewayStep(t, "complete", gw.handler[t], gw.valid[t], gw.steps[t], code, 0,
                         gw.client)

\* complete_tracing_success / complete_tracing_error: the outcome is recorded
\* under the metrics mutex and the span ended; the match ends, which drops the
\* client guard, and the handler answers.
Complete(t) ==
    /\ gw.pc[t] = "complete"
    /\ GatewayStep(t, "done", gw.handler[t], gw.valid[t],
                   gw.steps[t] \o <<"metrics",
                                     IF gw.code[t] = "OK" THEN "complete_success"
                                     ELSE "complete_error">>,
                   gw.code[t], HttpStatus(gw.handler[t], gw.code[t]),
                   [gw.client EXCEPT ![gw.handler[t].svc] = 0])

InitGateway ==
    /\ phase = "running"
    /\ db = [t \in Tables |-> EmptyCache]
    /\ nextId = [t \in Tables |-> 1]
    /\ cache = EmptyCache
    /\ cacheUp = TRUE
    /\ spansOpened = 0
    /\ spansCompleted = 0
    /\ spansAbandoned = 0
    /\ last = NoOp
    /\ listReq = NoList
    /\ calc = NoCalc
    /\ gw = NoGateway
    /\ race = NoRace
    /\ req = NoReq
    /\ signup = NoSignup
    /\ locks = NoLocks

NextGateway ==
    \E t \in Tasks :
        \/ Accept(t)
        \/ Acquire(t)
        \/ Answer(t)
        \/ Complete(t)

SpecGateway == InitGateway /\ [][NextGateway]_vars

\* ------------------------------------------------------ interleaving ----
\* get_post, update_post and delete_post of post 1 called concurrently.  Each
\* action is the part of a method between two awaits on the cache or the
\* repository; the tracing calls touch neither and are left out.
RacePost == 1
RaceRow(title) == [id |-> RacePost, title |-> title]

\* The entry a get would be served now: set_ex entries vanish when they expire.
LiveEntry == IF race.entry # <<>> /\ race.now < race.entry[1].exp THEN race.entry ELSE <<>>

\* set_to_cache(&cache_key, &response, Duration::from_secs(60 * 5))
Cached(response) == <<[val |-> response, exp |-> race.now + Ttl]>>

RaceStep(c, pc, seen, row, wrote, entry) ==
    /\ race' = [race EXCEPT !.call[c] = [pc |-> pc, seen |-> seen],
                            !.row = row, !.wrote = wrote, !.entry = entry]
    /\ UNCHANGED <<phase, db, nextId, cache, cacheUp, spansOpened, spansCompleted,
                   spansAbandoned, last, listReq, calc, gw, req, signup, locks>>

\* get_post up to the repository call: a hit returns the entry.
GetPostLookup(c) ==
    /\ race.call[c].pc = "idle"
    /\ IF LiveEntry # <<>>
       THEN RaceStep(c, "idle", <<>>, race.row, race.wrote, race.entry)
       ELSE RaceStep(c, "read", <<>>, race.row, race.wrote, race.entry)

\* repository.get_post answers: the row, no row (NotFound), or an error.
GetPostRead(c) ==
    /\ race.call[c].pc = "read"
    /\ \E fail \in BOOLEAN :
        IF fail \/ race.row = <<>>
        THEN RaceStep(c, "idle", <<>>, race.row, race.wrote, race.entry)
        ELSE RaceStep(c, "fill", race.row, race.row, race.wrote, race.entry)

\* get_post writes what it read to the cache and returns.
GetPostFill(c) ==
    /\ race.call[c].pc = "fill"
    /\ RaceStep(c, "idle", <<>>, race.row, race.wrote,
                Cached(ApiResponse("Post retrieved successfully",
                                   PostResponseFrom(race.call[c].seen[1]))))

\* repository.update_post: an error (also when the row is absent) ends the call.
UpdatePostWrite(c) ==
    /\ race.call[c].pc = "idle"
    /\ \E title \in Names, fail \in BOOLEAN :
        IF fail \/ race.row = <<>>
        THEN RaceStep(c, "idle", <<>>, race.row, race.wrote, race.entry)
        ELSE RaceStep(c, "store", <<RaceRow(title)>>, <<RaceRow(title)>>, race.now, race.entry)

\* update_post overwrites the entry with its response and returns.
UpdatePostStore(c) ==
    /\ race.call[c].pc = "store"
    /\ RaceStep(c, "idle", <<>>, race.row, race.wrote,
                Cached(ApiResponse("Post updated successfully",
                                   PostResponseFrom(race.call[c].seen[1]))))

\* repository.delete_post
DeletePostWrite(c) ==
    /\ race.call[c].pc = "idle"
    /\ \E fail \in BOOLEAN :
        IF fail \/ race.row = <<>>
        THEN RaceStep(c, "idle", <<>>, race.row, race.wrote, race.entry)
        ELSE RaceStep(c, "evict", <<>>, <<>>, race.now, race.entry)

\* delete_post deletes the entry and returns.
DeletePostEvict(c) ==
    /\ race.call[c].pc = "evict"
    /\ RaceStep(c, "idle", <<>>, race.row, race.wrote, <<>>)

\* create_post inserts the row; it does not touch the cache.
CreatePostWrite(c) ==
    /\ race.call[c].pc = "idle"
    /\ race.row = <<>>
    /\ \E title \in Names :
        RaceStep(c, "idle", <<>>, <<RaceRow(title)>>, race.now, race.entry)

\* The server process stops and is started again: the calls in progress are
\* lost, the database and Redis keep what they hold.
Crash ==
    /\ \E c \in Callers : race.call[c].pc # "idle"
    /\ race' = [race EXCEPT !.call = [c \in Callers |-> Resting], !.crashed = TRUE]
    /\ UNCHANGED <<phase, db, nextId, cache, cacheUp, spansOpened, spansCompleted,
                   spansAbandoned, last, listReq, calc, gw, req, signup, locks>>

\* A minute passes; Redis drops the entry when its time is up.
Tick ==
    /\ race.now < MaxTime
    /\ race' = [race EXCEPT !.now = @ + 1,
                            !.entry = IF race.entry # <<>> /\ race.entry[1].exp <= race.now + 1
                                      THEN <<>> ELSE race.entry]
    /\ UNCHANGED <<phase, db, nextId, cache, cacheUp, spansOpened, spansCompleted,
                   spansAbandoned, last, listReq, calc, gw, req, signup, locks>>

InitRace ==
    /\ phase = "running"
    /\ db = [t \in Tables |-> EmptyCache]
    /\ nextId = [t \in Tables |-> 1]
    /\ cache = EmptyCache
    /\ cacheUp = TRUE
    /\ spansOpened = 0
    /\ spansCompleted = 0
    /\ spansAbandoned = 0
    /\ last = NoOp
    /\ listReq = NoList
    /\ calc = NoCalc
    /\ gw = NoGateway
    /\ race = NoRace
    /\ req = NoReq
    /\ signup = NoSignup
    /\ locks = NoLocks

NextRace ==
    \/ Tick
    \/ Crash
    \/ \E c \in Callers :
        \/ GetPostLookup(c)
        \/ GetPostRead(c)
        \/ GetPostFill(c)
        \/ UpdatePostWrite(c)
        \/ UpdatePostStore(c)
        \/ DeletePostWrite(c)
        \/ DeletePostEvict(c)
        \/ CreatePostWrite(c)

SpecRace == InitRace /\ [][NextRace]_vars

\* ----------------------------------------------------------- C11 ----
\* default_page_size() of the list requests
DefaultPageSize == 10

ListServices == {"category", "post", "user"}

\* C11 (as claimed): in every list operation a page <= 0 is replaced by 1, a
\* page_size <= 0 by the default, positive values pass unchanged, and the
\* normalized pair is the one in the cache key, in the repository call and in
\* the returned Pagination.
C11_NormalizedEverywhere ==
    (last.op = "get_all" /\ last.svc \in ListServices)
    => LET page == IF listReq.req[1] <= 0 THEN 1 ELSE listReq.req[1]
           page_size == IF listReq.req[2] <= 0 THEN DefaultPageSize ELSE listReq.req[2]
           prefix == CASE last.svc = "category" -> "categories"
                       [] last.svc = "post" -> "posts"
                       [] OTHER -> "users"
       IN /\ \E search \in Searches :
               last.key = prefix \o ":page=" \o ToString(page) \o ":size="
                             \o ToString(page_size) \o ":search=" \o search
          /\ listReq.repo # <<>> => listReq.repo = <<page, page_size>>
          /\ last.res.tag = "Ok"
               => (/\ last.res.env.pagination.page = page
                   /\ last.res.env.pagination.page_size = page_size)

\* ----------------------------------------------------------- C12 ----
\* C12 (as claimed): for the same request the three list methods compute the
\* same normalized (page, page_size), a page <= 0 giving 1 and a page_size <= 0
\* giving 10 in all three.
C12_SameNormalization ==
    \A svc \in DOMAIN calc.norm :
        /\ \A other \in DOMAIN calc.norm : calc.norm[svc] = calc.norm[other]
        /\ calc.norm[svc][1] = (IF calc.page <= 0 THEN 1 ELSE calc.page)
        /\ calc.norm[svc][2] = (IF calc.page_size <= 0 THEN DefaultPageSize ELSE calc.page_size)

\* ----------------------------------------------------------- C13 ----
\* C13: total_pages is the ceiling of total_items / page_size: the least n with
\* n * page_size >= total_items, and 0 when there are no items.
C13_TotalPagesIsCeiling ==
    \A svc \in DOMAIN calc.total_pages :
        LET n == calc.total_pages[svc]
            page_size == calc.norm[svc][2]
        IN /\ page_size >= 1
           /\ n >= 0
           /\ n * page_size >= calc.total_items
           /\ n > 0 => (n - 1) * page_size < calc.total_items
           /\ calc.total_items = 0 => n = 0

C13_Witness ==
    /\ calc.total_items = 25
    /\ "category" \in DOMAIN calc.total_pages
    /\ calc.norm["category"][2] = 10
    /\ calc.total_pages["category"] = 3

\* ----------------------------------------------------------- C14 ----
ListKey(svc, page, page_size, search) ==
    (CASE svc = "category" -> "categories" [] svc = "post" -> "posts" [] OTHER -> "users")
       \o ":page=" \o ToString(page) \o ":size=" \o ToString(page_size) \o ":search=" \o search

\* The rows of the entity's table that the search term selects.
MatchingIds(svc, search) ==
    {i \in DOMAIN db[svc] :
        \/ search = ""
        \/ Like(CASE svc = "category" -> db[svc][i].name
                   [] svc = "post" -> db[svc][i].title
                   [] OTHER -> db[svc][i].email, search)}

\* C14 (as claimed): a list request that reaches the repository with a page
\* beyond the last page, the database answering, is a success with no rows
\* and a Pagination that carries the requested page and the true totals.
C14_PageBeyondLastIsEmpty ==
    (/\ last.op = "get_all" /\ last.svc \in ListServices
     /\ listReq.repo # <<>>
     /\ ~(Count(last.steps, {"repo_err"}) > 0 /\ Count(last.steps, {"offset_overflow"}) = 0))
    => LET page == listReq.repo[1]
           page_size == listReq.repo[2]
           search == CHOOSE s \in Searches : last.key = ListKey(last.svc, page, page_size, s)
           total_items == Cardinality(MatchingIds(last.svc, search))
           total_pages == CHOOSE n \in 0..total_items :
                             /\ n * page_size >= total_items
                             /\ \A m \in 0..(n - 1) : m * page_size < total_items
       IN page > total_pages
            => (/\ last.res.tag = "Ok"
                /\ last.res.env.data = <<>>
                /\ last.res.env.pagination =
                      Pagination(page, page_size, total_items, total_pages))

\* ----------------------------------------------------------- C15 ----
\* C15: create_user and register_user ask find_by_email_exists before any
\* create_user call; for an email that already has a row they return
\* EmailAlreadyExists without calling create_user and change nothing (unless
\* the existence query itself fails, which is reported as such).
C15_ConflictCheckedFirst ==
    [][(/\ OpStep
        /\ last'.op \in {"create", "register"} /\ last'.svc \in {"user", "auth"})
       => (/\ last'.steps[2] = "repo.find_by_email_exists"
           /\ FindByEmailExists(last'.email)
                => (/\ Count(last'.steps, {"repo.create_user"}) = 0
                    /\ last'.res.tag = "Err"
                    /\ db' = db
                    /\ \/ last'.res.kind = "EmailAlreadyExists"
                       \/ last'.steps = <<"start", "repo.find_by_email_exists", "repo_err",
                                          "complete_error">>))]_vars

C15_Witness ==
    /\ last.op = "register"
    /\ last.res.kind = "EmailAlreadyExists"
    /\ last.steps = <<"start", "repo.find_by_email_exists", "complete_error">>
    /\ FindByEmailExists(last.email)

\* ----------------------------------------------------------- C17 ----
\* The last operation was a get_by_id that reached the repository, the
\* repository answered, and no row with that id exists.
AbsentLookup ==
    /\ last.op = "get_by_id"
    /\ Count(last.steps, RepoSteps) > 0
    /\ last.res.kind # "SqlxError"
    /\ last.id \notin DOMAIN db[EntityOf(last.svc)]

\* C17 (as claimed): at the RPC boundary a get_by_id of any entity for a
\* record that does not exist is answered with status NOT_FOUND, never INTERNAL.
C17_AbsentIsRpcNotFound ==
    AbsentLookup => last.rpc.code = "NOT_FOUND"

\* ----------------------------------------------------------- C18 ----
\* C18 (as claimed): login_user answers UNAUTHENTICATED exactly when the
\* failure kind is InvalidCredentials; a NotFound failure is answered
\* NOT_FOUND and any other failure INTERNAL.
C18_LoginStatusByKind ==
    (last.op = "login" /\ last.res.tag = "Err")
    => /\ (last.rpc.code = "UNAUTHENTICATED") <=> (last.res.kind = "InvalidCredentials")
       /\ last.res.kind = "NotFound" => last.rpc.code = "NOT_FOUND"
       /\ last.res.kind \in {"SqlxError", "JwtError"} => last.rpc.code = "INTERNAL"

\* ----------------------------------------------------------- C19 ----
\* C19 (as claimed): at the RPC boundary a Conflict failure (EmailAlreadyExists
\* from create_user or register_user) and a ValidationError are answered with
\* a status that is an error (not OK) and is not INTERNAL.
C19_ConflictIsClientError ==
    (/\ last.op \in ServiceOps
     /\ last.res.tag = "Err"
     /\ last.res.kind \in {"EmailAlreadyExists", "ValidationError"})
    => last.rpc.code \notin {"", "OK", "INTERNAL"}

\* ----------------------------------------------------------- C16 ----
\* The RPC of request t has been sent.
RpcSent(t) == Count(gw.steps[t], {"rpc"}) > 0

\* C16 (as claimed): a create or update request (register included) whose body
\* violates the validation rules is rejected before any RPC is sent for it.
C16_InvalidBodyNeverSent ==
    \A t \in Tasks :
        (gw.handler[t].op \in {"create", "update", "register"} /\ ~gw.valid[t])
        => ~RpcSent(t)

\* ----------------------------------------------------------- C20 ----
\* The locks request t holds.
LocksHeld(t) == {svc \in GatewayServices : gw.client[svc] = t}

\* C20 (as claimed): no request holds a lock while its network call is in
\* flight, so a second request to the same service is never kept waiting for
\* the first one's answer.
C20_NoLockAcrossCall ==
    \A t \in Tasks : gw.pc[t] = "rpc" => LocksHeld(t) = {}

\* ----------------------------------------------------------- C21 ----
\* The entry a get would be served disagrees with the database.
StaleServed ==
    /\ LiveEntry # <<>>
    /\ \/ race.row = <<>>
       \/ LiveEntry[1].val.data # PostResponseFrom(race.row[1])

\* C21 (as claimed): in every execution, concurrent calls and crashes
\* included, an entry that disagrees with the database is no longer served
\* once Ttl minutes have passed since the write that made it disagree.
C21_StaleWithinTtl ==
    StaleServed => race.now < race.wrote + Ttl

\* ----------------------------------------------------------- C22 ----
\* The operation of this step is served from the cache alone.
ServedFromCache == OpStep /\ Count(last'.steps, RepoSteps) = 0

C23_GatewayLossless ==
    (last.op \in ServiceOps /\ last.res.tag = "Ok")
    => (last.out.tag = "Ok" /\ last.out.env[1] = last.res.env)

\* ----------------------------------------------------------- C24 ----
\* The response made of a row of the entity a service works on.
RowResponse(svc, row) ==
    CASE svc = "category" -> CategoryResponseFrom(row)
      [] svc = "post" -> PostResponseFrom(row)
      [] svc = "comment" -> CommentResponseFrom(row)
      [] OTHER -> UserResponseFrom(row)

\* The data is not the zero value of its type.
Populated(ty, data) == data # FromProto(ty, <<>>)

\* Operations whose data is one record.
RecordOps == {"get_by_id", "get_relation", "create", "update", "register"}

DeleteOfAbsent ==
    /\ spansOpened' = spansOpened + 1
    /\ last'.op = "delete"
    /\ IF last'.svc = "user"
       THEN IdsByEmail(last'.email) = {}
       ELSE last'.id \notin DOMAIN db[last'.svc]

\* C25: a delete of an id (or email) that has no record does not return a
\* success envelope and leaves the cache as it was (the error it returns is
\* NotFound unless the database itself failed).
C25_AbsentDeleteIsNotFound ==
    [][DeleteOfAbsent
       => /\ last'.res.tag = "Err"
          /\ last'.res.kind \in {"NotFound", "SqlxError"}
          /\ cache' = cache]_vars

\* ------------------------------------------------- request pipeline ----
\* What a request carries at one place (the cookie "token", or the
\* Authorization header): nothing usable, a token verify_token rejects, a
\* token it accepts.
Tokens == {"none", "bad", "good"}

\* cookie_jar.get("token") .or_else(Authorization: "Bearer ...")
BearerToken(cookie, header) == IF cookie # "none" THEN cookie ELSE header

\* The routes built under route_layer(from_fn_with_state(.., jwt::auth)).
Protected(h) ==
    \/ h.svc \in {"user", "comment"}
    \/ h.svc = "category" /\ h.op # "get_all"
    \/ h.svc = "auth" /\ h.op = "get_me"

\* The handlers whose utoipa::path declares security(("bearer_auth" = [])).
Documented(h) ==
    \/ h.svc \in {"user", "category"}
    \/ h.svc = "comment" /\ h.op = "get_all"
    \/ h.svc = "auth" /\ h.op = "get_me"

\* The texts a failing driver (database, hashing, transport) may give.
DriverTexts == {"connection refused", "broken pipe"}

\* The message of the Status the gateway service receives: the server's
\* handler sends the message of the entity service's ErrorResponse (a fixed
\* text in find_all_users) or its not-found text; when the server cannot be
\* reached the Status is made of the transport error.
StatusMessage(h, code, text) ==
    CASE code = "OK" -> ""
      [] code = "NOT_FOUND" -> AbsentMessage(h.svc)
      [] code = "UNAVAILABLE" -> text
      [] OTHER -> RpcReply(h.op, h.svc, Err("SqlxError", text)).message

\* format!("{:?}", e) of an ErrorResponse
DebugErrorResponse(status, message) ==
    "ErrorResponse { status: " \o status \o ", message: " \o message \o " }"

\* The JSON body of each handler's Err arm, for the ErrorResponse
\* { status: status.code().to_string(), message: status.message() } the
\* gateway service returns.
ErrorBody(h, code, message) ==
    LET status == CodeToString(code)
    IN CASE h.svc \in {"category", "comment"} /\ h.op \in {"get_by_id", "update"} ->
              IF status = "NOT_FOUND"
              THEN [status |-> "fail", message |-> message, error |-> ""]
              ELSE [status |-> "error", message |-> "Failed", error |-> message]
         [] h.svc = "comment" ->
              [status |-> "error", message |-> "Failed",
               error |-> DebugErrorResponse(status, message)]
         [] (h.svc = "user" /\ h.op = "update") \/ (h.svc = "auth" /\ h.op = "get_me") ->
              [status |-> "fail", message |-> message, error |-> ""]
         [] OTHER -> [status |-> status, message |-> message, error |-> ""]

\* A request arrives on one of the routes.
Arrive ==
    /\ req.pc = "idle"
    /\ \E h \in Handlers, cookie \in Tokens, header \in Tokens, body \in Bodies :
        req' = [NoReq EXCEPT !.pc = "layer", !.handler = h,
                             !.token = BearerToken(cookie, header),
                             !.valid = Validate(h, body), !.accepted = Accepts(h, body)]
    /\ UNCHANGED <<phase, db, nextId, cache, cacheUp, spansOpened, spansCompleted,
                   spansAbandoned, last, listReq, calc, gw, race, signup, locks>>

\* jwt::auth on the protected routes: without a token, or with one that
\* verify_token rejects, it answers 401 itself; otherwise next.run(req).  A
\* public route has no layer.
JwtAuth ==
    /\ req.pc = "layer"
    /\ req' = IF ~Protected(req.handler) THEN [req EXCEPT !.pc = "extract"]
              ELSE IF req.token = "none"
              THEN [req EXCEPT !.pc = "done", !.http = 401,
                               !.body = [status |-> "fail",
                                         message |-> "You are not logged in, please provide token",
                                         error |-> ""]]
              ELSE IF req.token = "bad"
              THEN [req EXCEPT !.pc = "done", !.http = 401,
                               !.body = [status |-> "fail", message |-> "Invalid token",
                                         error |-> ""]]
              ELSE [req EXCEPT !.pc = "extract", !.steps = Append(@, "next.run")]
    /\ UNCHANGED <<phase, db, nextId, cache, cacheUp, spansOpened, spansCompleted,
                   spansAbandoned, last, listReq, calc, gw, race, signup, locks>>

\* The extractors run; unless the body is refused the handler runs and calls
\* the gateway service, which sends the RPC.
Extract ==
    /\ req.pc = "extract"
    /\ req' = IF req.accepted
              THEN [req EXCEPT !.pc = "rpc", !.steps = @ \o <<"handler", "rpc">>]
              ELSE [req EXCEPT !.pc = "rejected"]
    /\ UNCHANGED <<phase, db, nextId, cache, cacheUp, spansOpened, spansCompleted,
                   spansAbandoned, last, listReq, calc, gw, race, signup, locks>>

\* The RPC is answered: by the server's handler, or with the transport's
\* failure; text is what the failing driver said, if one failed.
Reply ==
    /\ req.pc = "rpc"
    /\ \E code \in AnswerCodes(req.handler), text \in DriverTexts :
        req' = [req EXCEPT !.pc = "respond", !.code = code,
                           !.text = IF code \in {"OK", "NOT_FOUND"} THEN "" ELSE text,
                           !.message = StatusMessage(req.handler, code, text)]
    /\ UNCHANGED <<phase, db, nextId, cache, cacheUp, spansOpened, spansCompleted,
                   spansAbandoned, last, listReq, calc, gw, race, signup, locks>>

\* The handler's match on the gateway service's result.
Respond ==
    /\ req.pc = "respond"
    /\ req' = [req EXCEPT !.pc = "done", !.http = HttpStatus(req.handler, req.code),
                          !.body = IF req.code = "OK" THEN NoBody
                                   ELSE ErrorBody(req.handler, req.code, req.message)]
    /\ UNCHANGED <<phase, db, nextId, cache, cacheUp, spansOpened, spansCompleted,
                   spansAbandoned, last, listReq, calc, gw, race, signup, locks>>

InitRequest ==
    /\ phase = "running"
    /\ db = [t \in Tables |-> EmptyCache]
    /\ nextId = [t \in Tables |-> 1]
    /\ cache = EmptyCache
    /\ cacheUp = TRUE
    /\ spansOpened = 0
    /\ spansCompleted = 0
    /\ spansAbandoned = 0
    /\ last = NoOp
    /\ listReq = NoList
    /\ calc = NoCalc
    /\ gw = NoGateway
    /\ race = NoRace
    /\ req = NoReq
    /\ signup = NoSignup
    /\ locks = NoLocks

NextRequest ==
    \/ Arrive
    \/ JwtAuth
    \/ Extract
    \/ Reply
    \/ Respond

SpecRequest == InitRequest /\ [][NextRequest]_vars

\* ----------------------------------------------------------- C26 ----
\* The request failed with an Internal failure: of the repository or hashing
\* behind the server, or of the transport.
InternalFailure == req.pc = "done" /\ req.text # ""

\* C26: the error response of an Internal failure is independent of the
\* driver's text: the message of the status received over RPC and every field
\* of the HTTP error body are what any other text would have given.
C26_NoDriverText ==
    InternalFailure
    => \A other \in DriverTexts :
          /\ req.message = StatusMessage(req.handler, req.code, other)
          /\ req.body = ErrorBody(req.handler, req.code,
                                  StatusMessage(req.handler, req.code, other))

\* ----------------------------------------------------------- C27 ----
\* GET /api/categories/{id}, PUT /api/categories/update/{id},
\* GET /api/comments/{id} and PUT /api/comments/{id}
NotFoundAware(h) == h.svc \in {"category", "comment"} /\ h.op \in {"get_by_id", "update"}

\* C27: on these four endpoints an RPC answered NOT_FOUND gives HTTP 404, and
\* HTTP 500 is sent only for other failures.
C27_NotFoundIs404 ==
    (req.pc = "done" /\ req.code # "" /\ NotFoundAware(req.handler))
    => /\ req.code = "NOT_FOUND" => req.http = 404
       /\ req.http = 500 => req.code \notin {"OK", "NOT_FOUND"}

\* ----------------------------------------------------------- C28 ----
\* The calls made for the request.
Invoked(call) == \E i \in DOMAIN req.steps : req.steps[i] = call

\* C28: on an endpoint documented with security bearer_auth, a request with
\* no token or with a rejected one never reaches the handler or the RPC
\* service, and is answered 401.
C28_BearerAuthEnforced ==
    (req.pc # "idle" /\ Documented(req.handler) /\ req.token # "good")
    => /\ ~Invoked("handler")
       /\ ~Invoked("rpc")
       /\ req.pc = "done" => req.http = 401

\* ----------------------------------------------------------- C29 ----
\* The outcome complete_tracing_internal recorded for the latest operation,
\* in metrics and on the span.
Recorded(outcome) == \E i \in DOMAIN last.steps : last.steps[i] = outcome

\* C29: an entity-service operation records the outcome "error" exactly when
\* it returns an error to its caller, and "success" exactly when it returns a
\* value that is not an error.
C29_OutcomeAgreesWithResult ==
    last.op \in ServiceOps
    => /\ Recorded("complete_error") <=> last.res.tag = "Err"
       /\ Recorded("complete_success") <=> last.res.tag \in {"Ok", "None"}

\* ----------------------------------------------------------- C30 ----
\* The gateway service has returned to the handler of request t.
HandedBack(t) == gw.pc[t] = "done"

\* C30: every gateway service operation that has returned started one span
\* and completed it once, recording in metrics the outcome of the RPC:
\* success when it was answered OK, error otherwise.
C30_GatewaySpanPaired ==
    \A t \in Tasks :
        HandedBack(t)
        => /\ Count(gw.steps[t], {"start"}) = 1
           /\ Count(gw.steps[t], Completions) = 1
           /\ Count(gw.steps[t], {"complete_success"}) = 1 <=> gw.code[t] = "OK"

\* ----------------------------------------------------------- C31 ----
\* No call on the post is in flight, and none was cut short by a crash.
Quiescent == ~race.crashed /\ \A c \in Callers : race.call[c].pc = "idle"

\* C31: under any interleaving of get_post, update_post and delete_post on
\* one id, whenever no call is in flight the entry under post:id=<id>, if
\* there is one, is the response of the row now in the database; there is no
\* entry for a deleted row.
C31_QuiescentCacheAgrees ==
    Quiescent => ~StaleServed

\* --------------------------------------------- concurrent sign-ups ----
\* Each action is the part of create_user / register_user between two awaits.
SignupStep(c, call, taken) ==
    /\ signup' = [taken |-> taken, call |-> [signup.call EXCEPT ![c] = call]]
    /\ UNCHANGED <<phase, db, nextId, cache, cacheUp, spansOpened, spansCompleted,
                   spansAbandoned, last, listReq, calc, gw, race, req, locks>>

\* The call returns res to its caller.
SignupReturns(call, res, cause) == [call EXCEPT !.pc = "done", !.res = res, !.cause = cause]

\* A call arrives: UserService::create_user or AuthService::register_user.
SignupCall(c) ==
    /\ signup.call[c].pc = "idle"
    /\ \E op \in {"create", "register"}, email \in Emails :
        SignupStep(c, [Unsigned EXCEPT !.pc = "check", !.op = op, !.email = email],
                   signup.taken)

\* repository.find_by_email_exists answers.
SignupCheck(c) ==
    LET call == signup.call[c]
    IN /\ call.pc = "check"
       /\ \E fail \in BOOLEAN :
           IF fail THEN SignupStep(c, SignupReturns(call, "SqlxError", "down"), signup.taken)
           ELSE IF call.email \in signup.taken
           THEN SignupStep(c, SignupReturns(call, "EmailAlreadyExists", ""), signup.taken)
           ELSE SignupStep(c, [call EXCEPT !.pc = IF call.op = "register" THEN "hash"
                                                 ELSE "insert"], signup.taken)

\* register_user: hashing.hash_password answers.
SignupHash(c) ==
    LET call == signup.call[c]
    IN /\ call.pc = "hash"
       /\ \E fail \in BOOLEAN :
           IF fail THEN SignupStep(c, SignupReturns(call, "HashingError", ""), signup.taken)
           ELSE SignupStep(c, [call EXCEPT !.pc = "insert"], signup.taken)

\* repository.create_user is invoked and answers.  The schema is not part of
\* the repository: an INSERT of an email that already has a row is either
\* refused by the database (a unique index) or adds a second row.
SignupInsert(c) ==
    LET call == signup.call[c]
        sent == [call EXCEPT !.sent = TRUE]
    IN /\ call.pc = "insert"
       /\ \E fail \in BOOLEAN, unique \in BOOLEAN :
           IF fail THEN SignupStep(c, SignupReturns(sent, "SqlxError", "down"), signup.taken)
           ELSE IF call.email \in signup.taken /\ unique
           THEN SignupStep(c, SignupReturns(sent, "SqlxError", "duplicate"), signup.taken)
           ELSE SignupStep(c, SignupReturns(sent, "Ok", ""), signup.taken \cup {call.email})

InitSignup ==
    /\ phase = "running"
    /\ db = [t \in Tables |-> EmptyCache]
    /\ nextId = [t \in Tables |-> 1]
    /\ cache = EmptyCache
    /\ cacheUp = TRUE
    /\ spansOpened = 0
    /\ spansCompleted = 0
    /\ spansAbandoned = 0
    /\ last = NoOp
    /\ listReq = NoList
    /\ calc = NoCalc
    /\ gw = NoGateway
    /\ race = NoRace
    /\ req = NoReq
    /\ signup = NoSignup
    /\ locks = NoLocks

NextSignup ==
    \E c \in Callers :
        \/ SignupCall(c)
        \/ SignupCheck(c)
        \/ SignupHash(c)
        \/ SignupInsert(c)

SpecSignup == InitSignup /\ [][NextSignup]_vars

\* ----------------------------------------------------------- C32 ----
\* C32: of the create_user / register_user calls that carry one email, at
\* most one invokes repository.create_user (leaving aside an invocation that
\* met a failing database), and any other that has returned got
\* EmailAlreadyExists.
C32_OneCreatePerEmail ==
    \A c1, c2 \in Callers :
        LET one == signup.call[c1]
            other == signup.call[c2]
        IN (c1 # c2 /\ one.email = other.email /\ one.sent /\ one.cause # "down"
            /\ other.pc = "done" /\ other.cause # "down" /\ other.res # "HashingError")
           => ~other.sent /\ other.res = "EmailAlreadyExists"

\* ----------------------------------------------------------- C33 ----
\* The list a get_all returned is what the table holds: every element is the
\* response of a row of the table, and the number of matching rows is the
\* total it reports (for comments, which are not paged, the length).
FreshList(rec) ==
    LET svc == rec.svc
        data == rec.res.env.data
    IN /\ \A i \in DOMAIN data :
            /\ data[i].id \in DOMAIN db[svc]
            /\ data[i] = RowResponse(svc, db[svc][data[i].id])
       /\ IF svc = "comment" THEN Len(data) = Cardinality(DOMAIN db[svc])
          ELSE \E search \in Searches :
                  /\ rec.key = ListKey(svc, rec.res.env.pagination.page,
                                       rec.res.env.pagination.page_size, search)
                  /\ rec.res.env.pagination.total_items = Cardinality(MatchingIds(svc, search))

\* The relation a get_post_relation returned is one the tables hold.
FreshRelation(rec) == rec.res.env.data \in PostRelationRows(rec.id)

\* C33: a get_all that directly follows a successful create, update or delete
\* of the same entity, and a get_post_relation that directly follows a
\* successful update or delete of that post, returns what the database holds.
C33_ListFreshAfterWrite ==
    [][(/\ last.op \in {"create", "update", "delete"} /\ last.res.tag = "Ok"
        /\ OpStep /\ last'.res.tag = "Ok" /\ last'.svc = last.svc
        /\ \/ last'.op = "get_all"
           \/ last'.op = "get_relation" /\ last'.id = last.id)
       => IF last'.op = "get_all" THEN FreshList(last') ELSE FreshRelation(last')]_vars

\* ----------------------------------------------------------- C34 ----
\* C34: the user row that create_user or register_user had the repository
\* insert holds the hash of the request's password, never the password.
C34_PasswordHashedBeforeInsert ==
    (last.op \in {"create", "register"} /\ EntityOf(last.svc) = "user" /\ last.res.tag = "Ok")
    => /\ last.id \in DOMAIN db["user"]
       /\ db["user"][last.id].password \in {HashPassword(password) : password \in NewPasswords}
       /\ db["user"][last.id].password \notin NewPasswords

\* ----------------------------------------------------------- C35 ----
\* A token was generated for the latest operation.
TokenGenerated == Recorded("generate_token") /\ ~Recorded("token_err")

\* C35: login_user returns a success envelope with a token only if a user
\* with the given email exists whose stored hash compare_password accepts for
\* the given password, the token being that user's; otherwise no token is
\* generated and an error is returned.
C35_TokenOnlyForValidLogin ==
    last.op = "login"
    => LET accepted == {i \in IdsByEmail(last.email) :
                           db["user"][i].password = HashPassword(last.password)}
       IN /\ last.res.tag = "Ok"
               => /\ accepted # {}
                  /\ TokenGenerated
                  /\ \E i \in accepted : last.res.env.data = GenerateToken(i)
          /\ accepted = {} => last.res.tag = "Err" /\ ~Recorded("generate_token")
          /\ last.res.tag # "Ok" => last.res.tag = "Err" /\ ~TokenGenerated

C35_Witness ==
    /\ last.op = "login"
    /\ last.email = "a"
    /\ last.password = "p"
    /\ last.res.tag = "Ok"
    /\ last.res.env.data = GenerateToken(1)

\* ------------------------------------------------- mutex acquisition ----
\* Each action is the part of a gateway service method between two awaits.
LockStep(t, pc, svc, client, metrics) ==
    /\ locks' = [pc |-> [locks.pc EXCEPT ![t] = pc], svc |-> [locks.svc EXCEPT ![t] = svc],
                 client |-> client, metrics |-> metrics]
    /\ UNCHANGED <<phase, db, nextId, cache, cacheUp, spansOpened, spansCompleted,
                   spansAbandoned, last, listReq, calc, gw, race, req, signup>>

\* A gateway service method is called.  AuthService first counts the request:
\* self.metrics.lock().await.inc_requests(..); the others go for the client.
Called(t) ==
    /\ locks.pc[t] = "idle"
    /\ \E svc \in GatewayServices :
        LockStep(t, IF svc = "auth" THEN "count" ELSE "lock", svc, locks.client, locks.metrics)

\* self.metrics.lock().await returns the guard: before inc_requests in
\* AuthService, before record in complete_tracing_internal.
TakeMetrics(t) ==
    /\ locks.pc[t] \in {"count", "record"}
    /\ locks.metrics = 0
    /\ LockStep(t, IF locks.pc[t] = "count" THEN "counting" ELSE "recording", locks.svc[t],
                locks.client, t)

\* Variant: the guard of inc_requests is not dropped.
Counted_GuardKept(t) ==
    /\ locks.pc[t] = "counting"
    /\ LockStep(t, "lock", locks.svc[t], locks.client, locks.metrics)

\* inc_requests returns and the statement ends: the metrics guard is dropped.
Counted(t) ==
    /\ locks.pc[t] = "counting"
    /\ LockStep(t, "lock", locks.svc[t], locks.client, 0)

\* self.client.lock().await returns the guard and the RPC is sent.
TakeClient(t) ==
    /\ locks.pc[t] = "lock"
    /\ locks.client[locks.svc[t]] = 0
    /\ LockStep(t, "rpc", locks.svc[t], [locks.client EXCEPT ![locks.svc[t]] = t],
                locks.metrics)

\* The RPC is answered.  AuthService's block ends, dropping the client guard,
\* and the method returns; the others go on to complete_tracing_* inside the
\* match, still holding the client guard.
Answered(t) ==
    /\ locks.pc[t] = "rpc"
    /\ IF locks.svc[t] = "auth"
       THEN LockStep(t, "done", "auth", [locks.client EXCEPT !["auth"] = 0], locks.metrics)
       ELSE LockStep(t, "record", locks.svc[t], locks.client, locks.metrics)

\* record returns and the statement ends, dropping the metrics guard; the
\* match ends, dropping the client guard; the method returns.
Recording(t) ==
    /\ locks.pc[t] = "recording"
    /\ LockStep(t, "done", locks.svc[t], [locks.client EXCEPT ![locks.svc[t]] = 0], 0)

InitLocks ==
    /\ phase = "running"
    /\ db = [t \in Tables |-> EmptyCache]
    /\ nextId = [t \in Tables |-> 1]
    /\ cache = EmptyCache
    /\ cacheUp = TRUE
    /\ spansOpened = 0
    /\ spansCompleted = 0
    /\ spansAbandoned = 0
    /\ last = NoOp
    /\ listReq = NoList
    /\ calc = NoCalc
    /\ gw = NoGateway
    /\ race = NoRace
    /\ req = NoReq
    /\ signup = NoSignup
    /\ locks = NoLocks

NextLocks ==
    \E t \in Tasks :
        \/ Called(t)
        \/ TakeMetrics(t)
        \/ Counted(t)
        \/ TakeClient(t)
        \/ Answered(t)
        \/ Recording(t)

\* Every RPC is answered, and a task that can go on does: tokio schedules
\* every ready task and wakes the waiters of a Mutex when it is unlocked.
SpecLocks ==
    /\ InitLocks
    /\ [][NextLocks]_vars
    /\ \A t \in Tasks :
        /\ WF_vars(TakeMetrics(t))
        /\ WF_vars(Counted(t))
        /\ WF_vars(TakeClient(t))
        /\ WF_vars(Answered(t))
        /\ WF_vars(Recording(t))

\* ----------------------------------------------------------- C36 ----
\* Request t holds no mutex.
HoldsNothing(t) == locks.metrics # t /\ \A svc \in GatewayServices : locks.client[svc] # t

\* C36: every gateway operation that was started eventually returns, having
\* released the locks it took.
C36_EveryOperationReturns ==
    \A t \in Tasks : (locks.pc[t] # "idle") ~> (locks.pc[t] = "done" /\ HoldsNothing(t))

\* Two requests of one service, one of which waited for the other's client
\* guard, have both returned; so has a request that waited for the metrics.
C36_Witness ==
    \E t, u \in Tasks :
        /\ t # u
        /\ locks.svc[t] = locks.svc[u]
        /\ locks.pc[t] = "done" /\ locks.pc[u] = "done"
        /\ HoldsNothing(t) /\ HoldsNothing(u)

\* ----------------------------------------------------------- C37 ----
\* The operation that reads the key an operation writes: update writes the
\* key get_by_id reads, a read writes the key it reads itself.
ReaderOf(rec) == [rec EXCEPT !.op = IF rec.op = "update" THEN "get_by_id" ELSE rec.op]

\* No operation reads user:email=<email>, the key update_user writes.
KeyIsRead(rec) == ~(rec.op = "update" /\ rec.svc = "user")

\* The last operation stored an entry, under a key some operation reads.
StoredEntry ==
    /\ last.op \in ServiceOps
    /\ last.cacheOk /\ cacheUp
    /\ Count(last.steps, {"cache_set"}) > 0
    /\ KeyIsRead(last)

\* C37 (as claimed): the entry an operation has just stored is accepted as a
\* hit by the operation that reads its key.
C37_StoredEntryIsAHit == StoredEntry => CachedFor(ReaderOf(last)) # <<>>

\* The same for every writer but update_comment.
OtherWritersHit ==
    (StoredEntry /\ ~(last.op = "update" /\ last.svc = "comment"))
        => CachedFor(ReaderOf(last)) # <<>>

====
